---- MODULE Spec2Model ----
(***************************************************************************)
(* Model of the BuLi prediction core: the ELO rating system                *)
(* (src/src/models/elo_rating.py), the Poisson goal model                  *)
(* (src/src/models/poisson_model.py) and the combining prediction engine   *)
(* (src/src/models/prediction_engine.py).                                  *)
(*                                                                         *)
(* Floating point values are fixed-point integers:                         *)
(*   probabilities, expected scores, exponentials : units of 1/PScale      *)
(*   ratings                                      : units of 1/RScale point *)
(*   goal-difference multipliers                  : units of 1/MultDen     *)
(*   engine weights                               : units of 1/WScale      *)
(* All intermediate products stay below 2^31.                              *)
(***************************************************************************)
EXTENDS Integers, Sequences, FiniteSets, TLC

VARIABLES ratings, use_cache, cache, call, pre, ret, pm, weights, inputs, now

vars == <<ratings, use_cache, cache, call, pre, ret, pm, weights, inputs, now>>

(***************************************************************************)
(* Bounds of the model.                                                    *)
(***************************************************************************)
MaxGoals == 3
MaxRows == 2
\* lambdas are the multiples q / LambdaDen, 1 <= q <= MaxLambdaQ
LambdaDen == 5
MaxLambdaQ == 24

Teams == {"A", "B", "C"}

(***************************************************************************)
(* Fixed-point arithmetic.                                                 *)
(***************************************************************************)
PScale == 10^8
PLimb == 10^4
RScale == 10^4

Abs(x) == IF x < 0 THEN -x ELSE x

Min(a, b) == IF a <= b THEN a ELSE b

\* n / d rounded to the nearest integer (d > 0), as a float operation rounds
RoundDiv(n, d) == n \div d + (IF 2 * (n % d) >= d THEN 1 ELSE 0)

\* x * y for fixed-point x, y (units of 1/PScale), one of them at most PScale
MulFix(x, y) ==
    LET xh == x \div PLimb
        xl == x % PLimb
        yh == y \div PLimb
        yl == y % PLimb
    IN  xh * yh + (xh * yl + xl * yh + (xl * yl) \div PLimb + PLimb \div 2) \div PLimb

\* num / den in units of 1/PScale, 0 <= num <= den <= 2 * PScale: long division
RECURSIVE LongDivDigits(_, _, _, _)
LongDivDigits(rem, den, acc, left) ==
    IF left = 0 THEN acc
    ELSE LongDivDigits((rem * 10) % den, den, acc * 10 + (rem * 10) \div den, left - 1)

DivFix(num, den) ==
    IF num = den THEN PScale ELSE RoundDiv(LongDivDigits(num, den, 0, 9), 10)

\* u * q / d rounded to nearest, without forming u * q
MulDiv(u, q, d) == (u \div d) * q + RoundDiv((u % d) * q, d)

\* 10 ** (-(2 ** -i)) for i = 1, 2, ..., in units of 1/PScale
Pow10NegRoots ==
    << 31622777, 56234133, 74989421, 86596432, 93057204, 96466162, 98217189,
       99104586, 99551286, 99775391, 99887632, 99943800, 99971896, 99985947,
       99992973, 99996487, 99998243, 99999122, 99999561, 99999780, 99999890,
       99999945 >>

\* 10 ** (-frac / den) for 0 <= frac < den, by the binary digits of frac / den
RECURSIVE Pow10NegFrac(_, _, _, _)
Pow10NegFrac(frac, den, i, acc) ==
    IF i > Len(Pow10NegRoots) THEN acc
    ELSE IF 2 * frac >= den
         THEN Pow10NegFrac(2 * frac - den, den, i + 1, MulFix(acc, Pow10NegRoots[i]))
         ELSE Pow10NegFrac(2 * frac, den, i + 1, acc)

\* 10 ** (-x / den) for integers x >= 0, den > 0
Pow10Neg(x, den) ==
    LET whole == x \div den
    IN  IF whole >= 8 THEN 0
        ELSE RoundDiv(Pow10NegFrac(x % den, den, 1, PScale), 10^whole)

(***************************************************************************)
(* ELORatingSystem: constructor defaults.                                  *)
(***************************************************************************)
k_factor == 32
home_advantage == 100
base_elo == 1500
MultDen == 8

\* a rating given in whole points
Pts(p) == p * RScale

\* get_rating: the stored rating, or the default for an unseen team
get_rating(r, team) == IF team \in DOMAIN r THEN r[team] ELSE Pts(base_elo)

\* seeded fault: the rating difference is lost (rating_b - rating_b)
expected_score_no_difference(rating_a, rating_b) == PScale \div 2

\* expected_score: 1 / (1 + 10 ** ((rating_b - rating_a) / 400))
expected_score(rating_a, rating_b) ==
    LET d == rating_b - rating_a
        q == Pow10Neg(Abs(d), 400 * RScale)
    IN  IF d >= 0 THEN DivFix(q, PScale + q) ELSE DivFix(PScale, PScale + q)

\* get_actual_score: 1.0 for a win, 0.5 for a draw, 0.0 for a loss
get_actual_score(goals_for, goals_against) ==
    IF goals_for > goals_against THEN PScale
    ELSE IF goals_for = goals_against THEN PScale \div 2
    ELSE 0

\* get_goal_difference_multiplier, in units of 1/MultDen
get_goal_difference_multiplier(goal_diff) ==
    IF goal_diff <= 1 THEN MultDen
    ELSE IF goal_diff = 2 THEN (3 * MultDen) \div 2
    ELSE 11 + Abs(goal_diff)

\* seeded fault: the expected score is taken as an even 0.5 whatever the ratings
rating_change_even_expectation(gd_multiplier, actual, expected) ==
    RoundDiv(k_factor * gd_multiplier * RoundDiv(actual - PScale \div 2, 100),
             MultDen * (PScale \div (100 * RScale)))

\* k * gd_multiplier * (actual - expected), in rating units
rating_change(gd_multiplier, actual, expected) ==
    RoundDiv(k_factor * gd_multiplier * RoundDiv(actual - expected, 100),
             MultDen * (PScale \div (100 * RScale)))

\* self.ratings[team] = new_rating
StoreRating(r, team, new_rating) ==
    [t \in (DOMAIN r) \cup {team} |-> IF t = team THEN new_rating ELSE r[t]]

\* seeded fault: reading the opponent's rating inserts the default for an unseen opponent
update_rating_inserts_opponent(r, team, opponent, goals_for, goals_against, is_home) ==
    LET seen == StoreRating(r, opponent, get_rating(r, opponent))
        new_rating == get_rating(r, team)
                      + rating_change(get_goal_difference_multiplier(Abs(goals_for - goals_against)),
                                      get_actual_score(goals_for, goals_against),
                                      expected_score(IF is_home
                                                     THEN get_rating(r, team) + Pts(home_advantage)
                                                     ELSE get_rating(r, team),
                                                     get_rating(r, opponent)))
    IN  [ratings |-> StoreRating(seen, team, new_rating),
         old |-> get_rating(r, team),
         new |-> new_rating]

\* seeded fault: the home advantage is applied whatever is_home says
team_rating_adjusted_always(team_rating, is_home) == team_rating + Pts(home_advantage)

\* the rating the expected score is computed for: home advantage applied
team_rating_adjusted(team_rating, is_home) ==
    IF is_home THEN team_rating + Pts(home_advantage) ELSE team_rating

\* update_rating: the new ratings map and the returned (old, new)
update_rating(r, team, opponent, goals_for, goals_against, is_home) ==
    LET team_rating == get_rating(r, team)
        opponent_rating == get_rating(r, opponent)
        expected == expected_score(team_rating_adjusted(team_rating, is_home),
                                   opponent_rating)
        actual == get_actual_score(goals_for, goals_against)
        goal_diff == Abs(goals_for - goals_against)
        gd_multiplier == get_goal_difference_multiplier(goal_diff)
        new_rating == team_rating + rating_change(gd_multiplier, actual, expected)
    IN  [ratings |-> StoreRating(r, team, new_rating),
         old |-> team_rating,
         new |-> new_rating]

\* seeded fault: the away side is updated with the home side's framing of the goals
process_match_goals_not_swapped(r, home_team, away_team, home_goals, away_goals) ==
    LET h == update_rating(r, home_team, away_team, home_goals, away_goals, TRUE)
        a == update_rating(h.ratings, away_team, home_team, home_goals, away_goals, FALSE)
    IN  [ratings |-> a.ratings,
         result |-> [home_team |-> home_team,
                     away_team |-> away_team,
                     home_goals |-> home_goals,
                     away_goals |-> away_goals,
                     home_elo_old |-> h.old,
                     home_elo_new |-> h.new,
                     home_elo_change |-> h.new - h.old,
                     away_elo_old |-> a.old,
                     away_elo_new |-> a.new,
                     away_elo_change |-> a.new - a.old]]

\* seeded fault: both sides are updated from the ratings held before the match
process_match_from_pre_match_ratings(r, home_team, away_team, home_goals, away_goals) ==
    LET h == update_rating(r, home_team, away_team, home_goals, away_goals, TRUE)
        a == update_rating(r, away_team, home_team, away_goals, home_goals, FALSE)
    IN  [ratings |-> StoreRating(h.ratings, away_team, a.new),
         result |-> [home_team |-> home_team,
                     away_team |-> away_team,
                     home_goals |-> home_goals,
                     away_goals |-> away_goals,
                     home_elo_old |-> h.old,
                     home_elo_new |-> h.new,
                     home_elo_change |-> h.new - h.old,
                     away_elo_old |-> a.old,
                     away_elo_new |-> a.new,
                     away_elo_change |-> a.new - a.old]]

\* process_match: home side updated first, then the away side
process_match(r, home_team, away_team, home_goals, away_goals) ==
    LET h == update_rating(r, home_team, away_team, home_goals, away_goals, TRUE)
        a == update_rating(h.ratings, away_team, home_team, away_goals, home_goals, FALSE)
    IN  [ratings |-> a.ratings,
         result |-> [home_team |-> home_team,
                     away_team |-> away_team,
                     home_goals |-> home_goals,
                     away_goals |-> away_goals,
                     home_elo_old |-> h.old,
                     home_elo_new |-> h.new,
                     home_elo_change |-> h.new - h.old,
                     away_elo_old |-> a.old,
                     away_elo_new |-> a.new,
                     away_elo_change |-> a.new - a.old]]

\* seeded fault: a negative draw residual is kept as computed
draw_as_computed(draw_prob) == draw_prob

\* if draw_prob < 0: draw_prob = 0.25
draw_or_default(draw_prob) == IF draw_prob < 0 THEN PScale \div 4 ELSE draw_prob

\* ELORatingSystem.predict_match: the returned dict; self.ratings is only read.
\* The two expected scores add up to 1 exactly, so the float residual
\* 1 - home - away is a rounding error of either sign or zero: float_error,
\* in units of 1/PScale, is the error the build's float arithmetic leaves.
elo_predict_match(r, home_team, away_team, float_error) ==
    LET home_rating == get_rating(r, home_team)
        away_rating == get_rating(r, away_team)
        home_rating_adjusted == home_rating + Pts(home_advantage)
        home_win_prob == expected_score(home_rating_adjusted, away_rating)
        away_win_prob == expected_score(away_rating, home_rating_adjusted)
        draw_prob == draw_or_default(PScale - home_win_prob - away_win_prob + float_error)
        total == home_win_prob + draw_prob + away_win_prob
    IN  [home_team |-> home_team,
         away_team |-> away_team,
         home_elo |-> home_rating,
         away_elo |-> away_rating,
         home_win_prob |-> DivFix(home_win_prob, total),
         draw_prob |-> DivFix(draw_prob, total),
         away_win_prob |-> DivFix(away_win_prob, total),
         elo_difference |-> home_rating - away_rating]

(***************************************************************************)
(* Optional values (None or a ratings dict) and the ratings cache entry.   *)
(***************************************************************************)
None == [given |-> FALSE, value |-> <<>>]
Some(m) == [given |-> TRUE, value |-> m]

\* Python truthiness of an Optional[Dict]: None and the empty dict are falsy
Truthy(opt) == opt.given /\ DOMAIN opt.value # {}

\* a cache whose get and set raise
Unavailable == [given |-> FALSE, value |-> <<>>, raises |-> TRUE]
Raises(c) == "raises" \in DOMAIN c

\* seeded fault: a failed load leaves the instance with no ratings
load_ratings_from_cache_resets_on_error(r, uc, c) ==
    IF ~uc THEN [ok |-> FALSE, ratings |-> r]
    ELSE IF Raises(c) THEN [ok |-> FALSE, ratings |-> <<>>]
    ELSE IF c.given THEN [ok |-> TRUE, ratings |-> c.value]
    ELSE [ok |-> FALSE, ratings |-> r]

\* load_ratings_from_cache, c being what cache.get(cache_key, expiry_hours)
\* does: the cached ratings replace self.ratings on a hit; an exception is
\* caught and reported as False
load_ratings_from_cache(r, uc, c) ==
    IF ~uc THEN [ok |-> FALSE, ratings |-> r]
    ELSE IF Raises(c) THEN [ok |-> FALSE, ratings |-> r]
    ELSE IF c.given THEN [ok |-> TRUE, ratings |-> c.value]
    ELSE [ok |-> FALSE, ratings |-> r]

\* save_ratings_to_cache: cache.set(cache_key, self.ratings); an exception is
\* caught and reported as False
save_ratings_to_cache(r, uc, c) ==
    IF ~uc THEN [ok |-> FALSE, cache |-> c]
    ELSE IF Raises(c) THEN [ok |-> FALSE, cache |-> c]
    ELSE [ok |-> TRUE, cache |-> Some(r)]

\* for _, match in matches_df.iterrows(): results.append(process_match(...))
RECURSIVE ProcessRows(_, _, _)
ProcessRows(r, rows, results) ==
    IF rows = <<>> THEN [ratings |-> r, results |-> results]
    ELSE LET match == Head(rows)
             m == process_match(r, match.HomeTeam, match.AwayTeam,
                                match.HomeGoals, match.AwayGoals)
         IN  ProcessRows(m.ratings, Tail(rows), Append(results, m.result))

\* the ratings the loop of process_matches_from_dataframe starts from
StartRatings(r, uc, c, initial_ratings) ==
    LET loaded == IF uc /\ ~Truthy(initial_ratings)
                  THEN load_ratings_from_cache(r, uc, c).ratings
                  ELSE r
    IN  IF Truthy(initial_ratings) THEN initial_ratings.value ELSE loaded

\* process_matches_from_dataframe: ratings, cache and returned rows afterwards
process_matches_from_dataframe(r, uc, c, matches_df, initial_ratings) ==
    LET done == ProcessRows(StartRatings(r, uc, c, initial_ratings), matches_df, <<>>)
    IN  [ratings |-> done.ratings,
         cache |-> IF uc THEN save_ratings_to_cache(done.ratings, uc, c).cache ELSE c,
         results |-> done.results]

(***************************************************************************)
(* Inputs of the model.                                                    *)
(***************************************************************************)
Goals == 0 .. MaxGoals

\* ratings maps an engine can hold between calls
SeedPoints == [A |-> 1900, B |-> base_elo, C |-> 1820]

SeedRatings == {[t \in D |-> Pts(SeedPoints[t])] : D \in SUBSET Teams}

\* what the ratings cache file can hold
CacheStates == {None, Some(<<>>), Some([A |-> Pts(1820), B |-> Pts(1600)])}

\* initial_ratings arguments
InitialRatingsArgs == {None, Some(<<>>), Some([A |-> Pts(1900), B |-> Pts(1820)])}

Row(h, a, hg, ag) == [HomeTeam |-> h, AwayTeam |-> a, HomeGoals |-> hg, AwayGoals |-> ag]

\* rounding errors a float residual carries, in units of 1/PScale
FloatErrors == {0 - 1, 0, 1}

\* rows of the matches DataFrame
SampleRows == {Row("A", "B", 2, 1), Row("B", "A", 1, 2), Row("A", "C", 1, 0),
               Row("C", "B", 0, 0), Row("C", "A", 0, 3)}

DataFrames == UNION {[1 .. n -> SampleRows] : n \in 0 .. MaxRows}

(***************************************************************************)
(* The state machine: an engine in any state, and one call on it.          *)
(***************************************************************************)
Init ==
    /\ now = 0
    /\ ratings \in SeedRatings
    /\ use_cache \in BOOLEAN
    /\ cache \in CacheStates
    /\ call = [op |-> "new"]
    /\ pre = ratings
    /\ ret = <<>>
    /\ pm = [op |-> "idle"]
    /\ weights = <<>>
    /\ inputs = <<>>

UpdateRating(team, opponent, goals_for, goals_against, is_home) ==
    /\ call.op = "new"
    /\ LET u == update_rating(ratings, team, opponent, goals_for, goals_against, is_home)
       IN  /\ ratings' = u.ratings
           /\ ret' = <<u.old, u.new>>
    /\ call' = [op |-> "update_rating", team |-> team, opponent |-> opponent,
                goals_for |-> goals_for, goals_against |-> goals_against,
                is_home |-> is_home]
    /\ pre' = ratings
    /\ UNCHANGED <<now, use_cache, cache, pm, weights, inputs>>

ProcessMatch(home_team, away_team, home_goals, away_goals) ==
    /\ call.op = "new"
    /\ LET m == process_match(ratings, home_team, away_team, home_goals, away_goals)
       IN  /\ ratings' = m.ratings
           /\ ret' = m.result
    /\ call' = [op |-> "process_match", home_team |-> home_team, away_team |-> away_team,
                home_goals |-> home_goals, away_goals |-> away_goals]
    /\ pre' = ratings
    /\ UNCHANGED <<now, use_cache, cache, pm, weights, inputs>>

ProcessMatchesFromDataframe(matches_df, initial_ratings) ==
    /\ call.op = "new"
    /\ LET p == process_matches_from_dataframe(ratings, use_cache, cache,
                                               matches_df, initial_ratings)
       IN  /\ ratings' = p.ratings
           /\ cache' = p.cache
           /\ ret' = p.results
    /\ call' = [op |-> "process_matches_from_dataframe", matches_df |-> matches_df,
                initial_ratings |-> initial_ratings, cache |-> cache]
    /\ pre' = ratings
    /\ UNCHANGED <<now, use_cache, pm, weights, inputs>>

EloPredictMatch(home_team, away_team, float_error) ==
    /\ call.op = "new"
    /\ ret' = elo_predict_match(ratings, home_team, away_team, float_error)
    /\ call' = [op |-> "predict_match", home_team |-> home_team, away_team |-> away_team,
                float_error |-> float_error]
    /\ pre' = ratings
    /\ UNCHANGED <<now, ratings, use_cache, cache, pm, weights, inputs>>

GetGoalDifferenceMultiplier(goal_diff) ==
    /\ call.op = "new"
    /\ ret' = get_goal_difference_multiplier(goal_diff)
    /\ call' = [op |-> "get_goal_difference_multiplier", goal_diff |-> goal_diff]
    /\ pre' = ratings
    /\ UNCHANGED <<now, ratings, use_cache, cache, pm, weights, inputs>>

Next ==
    \/ \E team \in Teams, opponent \in Teams, gf \in Goals, ga \in Goals, is_home \in BOOLEAN :
          UpdateRating(team, opponent, gf, ga, is_home)
    \/ \E home \in Teams, away \in Teams, hg \in Goals, ag \in Goals :
          ProcessMatch(home, away, hg, ag)
    \/ \E df \in DataFrames, initial \in InitialRatingsArgs :
          ProcessMatchesFromDataframe(df, initial)
    \/ \E d \in (0 - MaxGoals) .. MaxGoals :
          GetGoalDifferenceMultiplier(d)
    \/ \E home \in Teams, away \in Teams, float_error \in FloatErrors :
          EloPredictMatch(home, away, float_error)

Spec == Init /\ [][Next]_vars

(***************************************************************************)
(* Properties of the rating system.                                        *)
(***************************************************************************)
IsUpdate == call.op = "update_rating"
IsMatch == call.op = "process_match"
IsBatch == call.op = "process_matches_from_dataframe"
IsMultiplier == call.op = "get_goal_difference_multiplier"

\* the rating a team holds in a ratings map: stored, or the default when unseen
Held(r, team) == IF team \in DOMAIN r THEN r[team] ELSE Pts(base_elo)

\* the margin multiplier as documented, on a non-negative difference, in 1/MultDen
DocMultiplier(absdiff) ==
    IF absdiff <= 1 THEN MultDen
    ELSE IF absdiff = 2 THEN 12
    ELSE 11 + absdiff

\* C1: update_rating(team, opponent, ...) changes only the stored rating of
\* `team`: every entry of another team (the opponent's too) is unchanged, and
\* a team that was unseen before the call (an unseen opponent) is not inserted.
C1_UpdateRatingFrame ==
    IsUpdate =>
        \A t \in Teams \ {call.team} :
            /\ (t \in DOMAIN ratings) <=> (t \in DOMAIN pre)
            /\ (t \in DOMAIN pre) => ratings[t] = pre[t]

C1_Witness ==
    /\ IsUpdate
    /\ call.opponent # call.team
    /\ call.opponent \notin DOMAIN pre
    /\ call.opponent \notin DOMAIN ratings
    /\ \E t \in DOMAIN pre : t # call.team /\ ratings[t] = pre[t]
    /\ ratings[call.team] # Held(pre, call.team)

\* C2: process_matches_from_dataframe(matches, initial_ratings): whenever an
\* initial_ratings mapping is supplied (the empty mapping included) the
\* ratings are reset to exactly that mapping before the first match, so the
\* returned records and the final ratings are those of process_match applied
\* to the rows in input order starting from that mapping, one record per row.
C2_ResetWheneverSupplied ==
    (IsBatch /\ call.initial_ratings.given) =>
        LET want == ProcessRows(call.initial_ratings.value, call.matches_df, <<>>)
        IN  /\ Len(ret) = Len(call.matches_df)
            /\ \A i \in 1 .. Len(ret) :
                   /\ ret[i].home_team = call.matches_df[i].HomeTeam
                   /\ ret[i].away_team = call.matches_df[i].AwayTeam
            /\ ret = want.results
            /\ ratings = want.ratings

\* C3: update_rating returns (old, new): old is the team's rating before the
\* call (the default for an unseen team), new = old + k * multiplier(|gf - ga|)
\* * (actual - expected), actual 1 / 0.5 / 0 for win / draw / loss, expected the
\* logistic score of the team's rating (plus the home bonus exactly when
\* is_home) against the opponent's current rating; new is stored for the team.
C3_UpdateRatingValue ==
    IsUpdate =>
        LET old == Held(pre, call.team)
            opp == Held(pre, call.opponent)
            actual == IF call.goals_for > call.goals_against THEN PScale
                      ELSE IF call.goals_for = call.goals_against THEN PScale \div 2
                      ELSE 0
            mine == IF call.is_home THEN old + Pts(home_advantage) ELSE old
            expected == expected_score(mine, opp)
            mult == DocMultiplier(Abs(call.goals_for - call.goals_against))
            new == old + rating_change(mult, actual, expected)
        IN  /\ ret = <<old, new>>
            /\ call.team \in DOMAIN ratings
            /\ ratings[call.team] = new

C3_Witness ==
    /\ IsUpdate
    /\ call.team \notin DOMAIN pre
    /\ call.is_home
    /\ call.goals_for - call.goals_against >= 3
    /\ ret[1] = Pts(base_elo)
    /\ ret[2] > ret[1]
    /\ ratings[call.team] = ret[2]

\* C4: process_match(home, away, hg, ag) with two distinct teams performs one
\* update_rating per side (home: is_home, goals (hg, ag); away: not is_home,
\* goals (ag, hg)); the record's *_elo_old are the ratings held before the
\* call, its *_elo_new the ratings stored after it, *_elo_change = new - old.
C4_ProcessMatchRecord ==
    (IsMatch /\ call.home_team # call.away_team) =>
        LET h == update_rating(pre, call.home_team, call.away_team,
                               call.home_goals, call.away_goals, TRUE)
            a == update_rating(h.ratings, call.away_team, call.home_team,
                               call.away_goals, call.home_goals, FALSE)
        IN  /\ ratings = a.ratings
            /\ ret.home_elo_old = Held(pre, call.home_team)
            /\ ret.away_elo_old = Held(pre, call.away_team)
            /\ ret.home_elo_new = ratings[call.home_team]
            /\ ret.away_elo_new = ratings[call.away_team]
            /\ ret.home_elo_new = h.new
            /\ ret.away_elo_new = a.new
            /\ ret.home_elo_change = ret.home_elo_new - ret.home_elo_old
            /\ ret.away_elo_change = ret.away_elo_new - ret.away_elo_old
            /\ \A t \in Teams \ {call.home_team, call.away_team} :
                   /\ (t \in DOMAIN ratings) <=> (t \in DOMAIN pre)
                   /\ (t \in DOMAIN pre) => ratings[t] = pre[t]

C4_Witness ==
    /\ IsMatch
    /\ call.home_team # call.away_team
    /\ call.home_goals < call.away_goals
    /\ ret.home_elo_change < 0
    /\ ret.away_elo_change > 0
    /\ ret.home_elo_new = ratings[call.home_team]
    /\ ret.away_elo_new = ratings[call.away_team]

SharesTeam(m1, m2) == {m1.HomeTeam, m1.AwayTeam} \cap {m2.HomeTeam, m2.AwayTeam} # {}

\* the ratings a batch call starts from
BatchStart == StartRatings(pre, use_cache, call.cache, call.initial_ratings)

\* C5: match processing is order-sensitive: two different matches that share
\* a team, processed from the same ratings in the two possible orders, end in
\* different rating maps.
C5_OrderSensitive ==
    (/\ IsBatch
     /\ Len(call.matches_df) = 2
     /\ call.matches_df[1] # call.matches_df[2]
     /\ SharesTeam(call.matches_df[1], call.matches_df[2])) =>
        ratings # ProcessRows(BatchStart,
                              <<call.matches_df[2], call.matches_df[1]>>, <<>>).ratings

C5_Witness ==
    /\ IsBatch
    /\ call.matches_df = <<Row("A", "B", 2, 1), Row("A", "C", 1, 0)>>
    /\ ratings # ProcessRows(BatchStart,
                             <<Row("A", "C", 1, 0), Row("A", "B", 2, 1)>>, <<>>).ratings

\* C6: from the same ratings, a match and the same match with the venue
\* swapped (same result for each team) give each team a different rating
\* delta; the two deltas of one match do not sum to zero.
C6_VenueSwapChangesDeltas ==
    (IsMatch /\ call.home_team # call.away_team) =>
        LET swapped == process_match(pre, call.away_team, call.home_team,
                                     call.away_goals, call.home_goals).result
        IN  /\ ret.home_elo_change # swapped.away_elo_change
            /\ ret.away_elo_change # swapped.home_elo_change
            /\ ret.home_elo_change + ret.away_elo_change # 0

C6_Witness ==
    /\ IsMatch
    /\ call.home_team = "A" /\ call.away_team = "B"
    /\ call.home_goals = 2 /\ call.away_goals = 1
    /\ LET swapped == process_match(pre, "B", "A", 1, 2).result
       IN  /\ ret.home_elo_change < swapped.away_elo_change
           /\ ret.away_elo_change > swapped.home_elo_change
    /\ ret.home_elo_change + ret.away_elo_change # 0

\* C7: for every integer goal difference d, of either sign, the multiplier
\* depends only on |d|, is at least 1.0 and non-decreasing in |d|: 1.0 for
\* |d| <= 1, 1.5 for |d| = 2, (11 + |d|) / 8 for |d| >= 3.
C7_MultiplierOfAbs ==
    IsMultiplier =>
        /\ ret = DocMultiplier(Abs(call.goal_diff))
        /\ ret >= MultDen
        /\ \A d \in (0 - MaxGoals) .. MaxGoals :
               Abs(d) <= Abs(call.goal_diff) => get_goal_difference_multiplier(d) <= ret

IsEloPrediction == call.op = "predict_match"

\* C21: the rating-only predict_match(home, away) returns three non-negative
\* probabilities that sum to 1: the win probabilities are the expected scores
\* of the home rating plus the home bonus and of the away rating against each
\* other, the draw probability is the residual 1 - home - away, replaced by
\* 0.25 when it is negative, and all three are divided by their total; the
\* call changes no rating.
C21_EloPrediction ==
    IsEloPrediction =>
        LET home == Held(pre, call.home_team) + Pts(home_advantage)
            away == Held(pre, call.away_team)
            home_win == expected_score(home, away)
            away_win == expected_score(away, home)
            residual == PScale - home_win - away_win + call.float_error
            draw == IF residual < 0 THEN PScale \div 4 ELSE residual
            total == home_win + draw + away_win
        IN  /\ ret.home_win_prob = DivFix(home_win, total)
            /\ ret.draw_prob = DivFix(draw, total)
            /\ ret.away_win_prob = DivFix(away_win, total)
            /\ ret.home_win_prob >= 0
            /\ ret.draw_prob >= 0
            /\ ret.away_win_prob >= 0
            /\ Abs(ret.home_win_prob + ret.draw_prob + ret.away_win_prob - PScale) <= 2
            /\ ratings = pre

\* the residual came out negative, so the draw share is 0.25 / 1.25 = 0.2
C21_Witness ==
    /\ IsEloPrediction
    /\ call.away_team \notin DOMAIN pre
    /\ ratings = pre
    /\ ret.draw_prob = PScale \div 5
    /\ ret.home_win_prob > ret.away_win_prob

\* the residual came out non-negative and is kept (a rounding error near zero)
C21_ResidualKept ==
    /\ IsEloPrediction
    /\ ret.draw_prob < 2
    /\ ret.home_win_prob + ret.away_win_prob >= PScale - 2

\* the away side's change in process_match, given the home rating it is rated against
AwayChangeAgainst(home_rating) ==
    rating_change(DocMultiplier(Abs(call.away_goals - call.home_goals)),
                  get_actual_score(call.away_goals, call.home_goals),
                  expected_score(ret.away_elo_old, home_rating))

\* C29: within process_match the home side is updated and stored before the
\* away side is updated, so the away side's expected score is computed against
\* the home team's post-match rating, without the home bonus, and not against
\* the home team's pre-match rating.
C29_AwayRatedAgainstNewHome ==
    IsMatch =>
        /\ ret.home_elo_old = Held(pre, call.home_team)
        /\ ret.away_elo_old = IF call.away_team = call.home_team
                              THEN ret.home_elo_new
                              ELSE Held(pre, call.away_team)
        /\ ret.away_elo_change = AwayChangeAgainst(ret.home_elo_new)
        /\ ret.away_elo_new = ret.away_elo_old + ret.away_elo_change
        /\ ratings[call.away_team] = ret.away_elo_new
        /\ call.home_team # call.away_team => ratings[call.home_team] = ret.home_elo_new

\* the post-match home rating gives the away side another change than the
\* pre-match rating or the bonus-adjusted rating would
C29_Witness ==
    /\ IsMatch
    /\ call.home_team # call.away_team
    /\ ret.home_elo_new # ret.home_elo_old
    /\ ret.away_elo_change = AwayChangeAgainst(ret.home_elo_new)
    /\ ret.away_elo_change # AwayChangeAgainst(ret.home_elo_old)
    /\ ret.away_elo_change # AwayChangeAgainst(ret.home_elo_new + Pts(home_advantage))

(***************************************************************************)
(* PoissonMatchPredictor.  A lambda is the integer q standing for          *)
(* q / LambdaDen.                                                          *)
(***************************************************************************)
\* seeded fault: a smaller goal cap
max_goals_eight == 10 - 2

max_goals == 10

LambdaQs == 1 .. MaxLambdaQ

\* the weights lambda^k / k!, k = 0, 1, ..., up to the first that rounds to 0,
\* on a common scale w0
RECURSIVE PoissonWeights(_, _)
PoissonWeights(w, q) ==
    LET k == Len(w)
        next == MulDiv(w[k], q, LambdaDen * k)
    IN  IF next = 0 THEN w ELSE PoissonWeights(Append(w, next), q)

RECURSIVE SumSeq(_)
SumSeq(w) == IF w = <<>> THEN 0 ELSE Head(w) + SumSeq(Tail(w))

\* scipy.stats.poisson.pmf(k, q / LambdaDen) for k = 0, 1, ... (entry k + 1):
\* exp(-lambda) * lambda^k / k!, with exp(lambda) as the sum of the weights
PoissonDist(q) ==
    LET w == PoissonWeights(<<(2 * PScale) \div 3^(q \div LambdaDen + 1)>>, q)
        e == SumSeq(w)
    IN  [k \in 1 .. Len(w) |-> DivFix(w[k], e)]

PoissonTable == [q \in LambdaQs |-> PoissonDist(q)]

\* poisson_probability(lambda_param, k)
poisson_probability(lambda_param, k) ==
    LET d == PoissonTable[lambda_param]
    IN  IF k + 1 <= Len(d) THEN d[k + 1] ELSE 0

GoalRange == 0 .. max_goals

\* seeded fault: the diagonal offset is ignored, the main diagonal is kept
np_tril_keeps_diagonal(m, k) ==
    [i \in DOMAIN m |-> [j \in DOMAIN m[i] |-> IF j <= i THEN m[i][j] ELSE 0]]

\* np.tril(m, k): entries above the k-th diagonal zeroed
np_tril(m, k) ==
    [i \in DOMAIN m |-> [j \in DOMAIN m[i] |-> IF j <= i + k THEN m[i][j] ELSE 0]]

\* np.triu(m, k): entries below the k-th diagonal zeroed
np_triu(m, k) ==
    [i \in DOMAIN m |-> [j \in DOMAIN m[i] |-> IF j >= i + k THEN m[i][j] ELSE 0]]

\* np.diag(m): the main diagonal
np_diag(m) == [i \in DOMAIN m |-> m[i][i]]

\* np.sum of a vector indexed 0 .. n
RECURSIVE SumVector(_, _)
SumVector(v, n) == IF n < 0 THEN 0 ELSE v[n] + SumVector(v, n - 1)

\* np.sum of a matrix
np_sum(m) == SumVector([i \in DOMAIN m |-> SumVector(m[i], max_goals)], max_goals)

\* probabilities[home_goals, away_goals] = prob_home * prob_away
score_table(home_lambda, away_lambda) ==
    [home_goals \in GoalRange |->
        [away_goals \in GoalRange |->
            MulFix(poisson_probability(home_lambda, home_goals),
                   poisson_probability(away_lambda, away_goals))]]

\* np.unravel_index(probabilities.argmax(), shape): first maximum, row by row
most_likely_idx(m) ==
    CHOOSE c \in GoalRange \X GoalRange :
        \A o \in GoalRange \X GoalRange :
            \/ m[o[1]][o[2]] < m[c[1]][c[2]]
            \/ /\ m[o[1]][o[2]] = m[c[1]][c[2]]
               /\ (c[1] < o[1] \/ (c[1] = o[1] /\ c[2] <= o[2]))

\* predict_match_simple
predict_match_simple(home_lambda, away_lambda) ==
    LET probabilities == score_table(home_lambda, away_lambda)
        idx == most_likely_idx(probabilities)
    IN  [op |-> "predict_match_simple",
         home_lambda |-> home_lambda,
         away_lambda |-> away_lambda,
         home_win_prob |-> np_sum(np_tril(probabilities, -1)),
         draw_prob |-> SumVector(np_diag(probabilities), max_goals),
         away_win_prob |-> np_sum(np_triu(probabilities, 1)),
         most_likely_score |-> idx,
         most_likely_score_prob |-> probabilities[idx[1]][idx[2]],
         score_probabilities |-> probabilities]

\* seeded fault: "not both blank" instead of "both score"
calculate_btts_not_both_blank(home_lambda, away_lambda) ==
    LET home_zero_prob == poisson_probability(home_lambda, 0)
        away_zero_prob == poisson_probability(away_lambda, 0)
        btts_yes == PScale - MulFix(home_zero_prob, away_zero_prob)
    IN  [op |-> "calculate_btts", home_lambda |-> home_lambda, away_lambda |-> away_lambda,
         btts_yes_prob |-> btts_yes, btts_no_prob |-> PScale - btts_yes,
         home_zero_prob |-> home_zero_prob, away_zero_prob |-> away_zero_prob]

\* calculate_btts
calculate_btts(home_lambda, away_lambda) ==
    LET home_zero_prob == poisson_probability(home_lambda, 0)
        away_zero_prob == poisson_probability(away_lambda, 0)
        btts_yes == MulFix(PScale - home_zero_prob, PScale - away_zero_prob)
    IN  [op |-> "calculate_btts", home_lambda |-> home_lambda, away_lambda |-> away_lambda,
         btts_yes_prob |-> btts_yes, btts_no_prob |-> PScale - btts_yes,
         home_zero_prob |-> home_zero_prob, away_zero_prob |-> away_zero_prob]

\* the number of rows of the score frame: (max_goals + 1) ** 2
score_rows == (max_goals + 1) * (max_goals + 1)

\* row n (1, 2, ...) of `scores`: home_goals outer loop, away_goals inner loop
score_row(n, home_lambda, away_lambda) ==
    LET home_goals == (n - 1) \div (max_goals + 1)
        away_goals == (n - 1) % (max_goals + 1)
    IN  [HomeGoals |-> home_goals, AwayGoals |-> away_goals,
         Score |-> <<home_goals, ":", away_goals>>,
         Probability |-> MulFix(poisson_probability(home_lambda, home_goals),
                                poisson_probability(away_lambda, away_goals))]

\* how the build's sort leaves rows of equal probability: in their order of
\* insertion or in the reverse of it (the default sort kind is not stable)
TieOrders == {"insertion", "reversed"}

\* seeded fault: ascending=True
sorts_before_ascending(key_a, key_b) == key_a < key_b

\* ascending=False: the larger probability first
sorts_before(key_a, key_b) == key_a > key_b

\* df.sort_values('Probability', ascending=False) as a permutation of 1 .. Len(keys)
sort_values(keys, tie_order) ==
    LET N == Len(keys)
        before(a, b) ==
            \/ sorts_before(keys[a], keys[b])
            \/ /\ keys[a] = keys[b]
               /\ IF tie_order = "insertion" THEN a < b ELSE a > b
        rank == [a \in 1 .. N |-> Cardinality({b \in 1 .. N : before(b, a)})] \o <<>>
    IN  [r \in 1 .. N |-> CHOOSE a \in 1 .. N : rank[a] = r - 1]

\* get_score_probabilities: the top_n rows of the sorted frame, reindexed
get_score_probabilities(home_lambda, away_lambda, top_n, tie_order) ==
    LET scores == [n \in 1 .. score_rows |-> score_row(n, home_lambda, away_lambda)] \o <<>>
        keys == [n \in 1 .. score_rows |-> scores[n].Probability] \o <<>>
        order == sort_values(keys, tie_order)
    IN  [i \in 1 .. Min(top_n, score_rows) |-> scores[order[i]]]

InitPoisson ==
    /\ now = 0
    /\ ratings = <<>>
    /\ use_cache = FALSE
    /\ cache = None
    /\ call = [op |-> "idle"]
    /\ pre = <<>>
    /\ ret = <<>>
    /\ weights = <<>>
    /\ inputs = <<>>
    /\ pm \in {[op |-> "new", home_lambda |-> h, away_lambda |-> a] :
                  h \in LambdaQs, a \in LambdaQs}

PredictMatchSimple ==
    /\ pm.op = "new"
    /\ pm' = predict_match_simple(pm.home_lambda, pm.away_lambda)
    /\ UNCHANGED <<now, ratings, use_cache, cache, call, pre, ret, weights, inputs>>

CalculateBtts ==
    /\ pm.op = "new"
    /\ pm' = calculate_btts(pm.home_lambda, pm.away_lambda)
    /\ UNCHANGED <<now, ratings, use_cache, cache, call, pre, ret, weights, inputs>>

NextPoisson == PredictMatchSimple \/ CalculateBtts

SpecPoisson == InitPoisson /\ [][NextPoisson]_vars

(***************************************************************************)
(* Properties of the goal model.                                           *)
(***************************************************************************)
IsPrediction == pm.op = "predict_match_simple"

Cells == GoalRange \X GoalRange

\* the sum of f[x] over the x in S
RECURSIVE SumOver(_, _)
SumOver(f, S) ==
    IF S = {} THEN 0
    ELSE LET x == CHOOSE y \in S : TRUE
         IN  f[x] + SumOver(f, S \ {x})

\* the sum of the cells (i, j) of m that are in cells
SumCells(m, cells) ==
    SumOver([i \in GoalRange |-> SumOver(m[i], {j \in GoalRange : <<i, j>> \in cells})],
            GoalRange)

\* C8: cell (i, j), 0 <= i, j <= max_goals, holds P(i; home_lambda) *
\* P(j; away_lambda); home_win_prob sums exactly the cells with i > j,
\* draw_prob those with i = j, away_win_prob those with i < j, and the three
\* add up to the total mass of the table.
C8_OutcomesPartitionTable ==
    IsPrediction =>
        LET t == pm.score_probabilities
        IN  /\ DOMAIN t = GoalRange
            /\ \A i \in GoalRange : DOMAIN t[i] = GoalRange
            /\ \A c \in Cells :
                   t[c[1]][c[2]] = MulFix(poisson_probability(pm.home_lambda, c[1]),
                                          poisson_probability(pm.away_lambda, c[2]))
            /\ pm.home_win_prob = SumCells(t, {c \in Cells : c[1] > c[2]})
            /\ pm.draw_prob = SumCells(t, {c \in Cells : c[1] = c[2]})
            /\ pm.away_win_prob = SumCells(t, {c \in Cells : c[1] < c[2]})
            /\ pm.home_win_prob + pm.draw_prob + pm.away_win_prob = SumCells(t, Cells)

C8_Witness ==
    /\ IsPrediction
    /\ pm.home_lambda > pm.away_lambda
    /\ pm.home_win_prob > pm.away_win_prob
    /\ pm.away_win_prob > 0
    /\ pm.draw_prob > 0
    /\ pm.score_probabilities[max_goals][0] > 0

\* P(goals > max_goals) for one side
TailMass(q) ==
    LET d == PoissonTable[q]
    IN  IF Len(d) <= max_goals + 1 THEN 0
        ELSE SumSeq(SubSeq(d, max_goals + 2, Len(d)))

\* the probability mass outside the 0 .. max_goals table
TruncationBias(home_lambda, away_lambda) ==
    TailMass(home_lambda) + TailMass(away_lambda)
        - MulFix(TailMass(home_lambda), TailMass(away_lambda))

OutcomeSum == pm.home_win_prob + pm.draw_prob + pm.away_win_prob

\* q / LambdaDen < 5, and q / LambdaDen <= 2.4
Under5(q) == q < 5 * LambdaDen
UpTo2p4(q) == 5 * q <= 12 * LambdaDen

\* C9 as stated: for all valid lambda pairs the three outcome probabilities
\* sum to 1.0 within 1e-6 apart from the truncation bias, and the truncation
\* bias is below 1e-4 for all lambdas under 5.
C9_BiasBelow1e4Under5 ==
    (IsPrediction /\ Under5(pm.home_lambda) /\ Under5(pm.away_lambda)) =>
        /\ Abs(OutcomeSum + TruncationBias(pm.home_lambda, pm.away_lambda) - PScale)
               <= PScale \div 10^6
        /\ TruncationBias(pm.home_lambda, pm.away_lambda) < PScale \div 10^4

\* C9 amended: for all valid lambda pairs the three outcome probabilities sum
\* to 1.0 within 1e-6 apart from the truncation bias; the truncation bias is
\* below 1e-4 when both lambdas are at most 2.4, and below 0.03 for all
\* lambdas under 5.
C9_BiasBounded ==
    IsPrediction =>
        /\ Abs(OutcomeSum + TruncationBias(pm.home_lambda, pm.away_lambda) - PScale)
               <= PScale \div 10^6
        /\ (UpTo2p4(pm.home_lambda) /\ UpTo2p4(pm.away_lambda)) =>
               TruncationBias(pm.home_lambda, pm.away_lambda) < PScale \div 10^4
        /\ (Under5(pm.home_lambda) /\ Under5(pm.away_lambda)) =>
               TruncationBias(pm.home_lambda, pm.away_lambda) < (3 * PScale) \div 100

C9_Witness ==
    /\ IsPrediction
    /\ 5 * pm.home_lambda = 12 * LambdaDen
    /\ 5 * pm.away_lambda = 12 * LambdaDen
    /\ TruncationBias(pm.home_lambda, pm.away_lambda) > 0
    /\ TruncationBias(pm.home_lambda, pm.away_lambda) < PScale \div 10^4
    /\ OutcomeSum < PScale

(***************************************************************************)
(* BundesligaPredictionEngine (src/src/models/prediction_engine.py).       *)
(* Weights are integers in units of 1/WScale, xG values in units of        *)
(* 1/XgScale goal, squad values in units of ValueUnit EUR, lambdas in      *)
(* units of 1/LScale goal.                                                 *)
(***************************************************************************)
WScale == 10^3
XgScale == 10^2
ValueUnit == 10^6
LScale == 10^4

\* self.weights after __init__
default_weights ==
    [elo |-> 350, xg |-> 300, squad_value |-> 150, injuries |-> 100, h2h |-> 100]

\* the 0.01 of `abs(total - 1.0) > 0.01`
weight_tolerance == WScale \div 100

\* seeded fault: the weights are assigned before the sum is tested
set_weights_assigns_first(w, elo, xg, squad_value, injuries, h2h, rounds_out) ==
    LET total == elo + xg + squad_value + injuries + h2h
        off == Abs(total - WScale)
    IN  [raised |-> off > weight_tolerance \/ (off = weight_tolerance /\ rounds_out),
         weights |-> [elo |-> elo, xg |-> xg, squad_value |-> squad_value,
                      injuries |-> injuries, h2h |-> h2h]]

\* set_weights on an engine holding the weights w.  The test is made in
\* binary64: a total at decimal distance exactly 0.01 from 1.0 is rejected or
\* accepted by the rounding of the sum (1.01 - 1.0 > 0.01 in binary64), which
\* rounds_out stands for.
set_weights(w, elo, xg, squad_value, injuries, h2h, rounds_out) ==
    LET total == elo + xg + squad_value + injuries + h2h
        off == Abs(total - WScale)
    IN  IF off > weight_tolerance \/ (off = weight_tolerance /\ rounds_out)
        THEN [raised |-> TRUE, weights |-> w]
        ELSE [raised |-> FALSE,
              weights |-> [elo |-> elo, xg |-> xg, squad_value |-> squad_value,
                           injuries |-> injuries, h2h |-> h2h]]

\* calculate_elo_strength: home = 1 / (1 + 10 ** (-elo_diff / 400)), away = 1 - home
calculate_elo_strength(home_elo, away_elo) ==
    LET elo_diff == home_elo - away_elo
        q == Pow10Neg(Abs(elo_diff), 400 * RScale)
        home_strength == IF elo_diff >= 0 THEN DivFix(PScale, PScale + q)
                         ELSE DivFix(q, PScale + q)
    IN  <<home_strength, PScale - home_strength>>

\* calculate_xg_strength; the two strengths before normalization are held
\* doubled, (attack + defense) rather than (attack + defense) / 2
calculate_xg_strength(home_xg_for, home_xg_against, away_xg_for, away_xg_against) ==
    LET home_strength == home_xg_for + away_xg_against
        away_strength == away_xg_for + home_xg_against
        total == home_strength + away_strength
    IN  IF total > 0
        THEN <<DivFix(home_strength, total), DivFix(away_strength, total)>>
        ELSE <<home_strength * (PScale \div (2 * XgScale)),
               away_strength * (PScale \div (2 * XgScale))>>

\* calculate_value_strength
calculate_value_strength(home_value, away_value) ==
    LET total_value == home_value + away_value
    IN  IF total_value = 0 THEN <<PScale \div 2, PScale \div 2>>
        ELSE <<DivFix(home_value, total_value), DivFix(away_value, total_value)>>

\* seeded fault: the penalty is not capped at max_impact
calculate_injury_impact_uncapped(home_injuries, away_injuries, max_impact) ==
    LET injury_penalty_per_player == RoundDiv(max_impact, 5)
    IN  <<home_injuries * injury_penalty_per_player,
          away_injuries * injury_penalty_per_player>>

\* calculate_injury_impact
calculate_injury_impact(home_injuries, away_injuries, max_impact) ==
    LET injury_penalty_per_player == RoundDiv(max_impact, 5)
    IN  <<Min(home_injuries * injury_penalty_per_player, max_impact),
          Min(away_injuries * injury_penalty_per_player, max_impact)>>

\* the default max_impact = 0.15
default_max_impact == (15 * PScale) \div 100

\* calculate_h2h_strength: every row of h2h_data is counted, from the home
\* side when its HomeTeam is home_team and from the away side otherwise
calculate_h2h_strength(h2h_data, home_team, away_team) ==
    LET rows == DOMAIN h2h_data
        as_home == {i \in rows : h2h_data[i].HomeTeam = home_team}
        as_away == rows \ as_home
        home_wins ==
            Cardinality({i \in as_home : h2h_data[i].HomeGoals > h2h_data[i].AwayGoals})
            + Cardinality({i \in as_away : h2h_data[i].AwayGoals > h2h_data[i].HomeGoals})
        away_wins ==
            Cardinality({i \in as_home : h2h_data[i].HomeGoals < h2h_data[i].AwayGoals})
            + Cardinality({i \in as_away : h2h_data[i].AwayGoals < h2h_data[i].HomeGoals})
        draws == Cardinality(rows) - home_wins - away_wins
        \* points doubled: 2 * (wins + 0.5 * draws)
        home_points == 2 * home_wins + draws
        away_points == 2 * away_wins + draws
        total_points == home_points + away_points
    IN  IF h2h_data = <<>> THEN <<PScale \div 2, PScale \div 2>>
        ELSE IF total_points = 0 THEN <<PScale \div 2, PScale \div 2>>
        ELSE <<DivFix(home_points, total_points), DivFix(away_points, total_points)>>

\* d.get(key, default)
dict_get(d, key, default) == IF key \in DOMAIN d THEN d[key] ELSE default

\* d.setdefault(key, default) as it leaves d
dict_setdefault(d, key, default) ==
    [k \in (DOMAIN d) \cup {key} |-> IF k \in DOMAIN d THEN d[k] ELSE default]

\* seeded fault: the factor dict is filled in with the default it lacks
factors_after_setdefault(d) == dict_setdefault(d, "elo", Pts(base_elo))

\* the factor dict d after predict_match has read it with d.get
factors_after_get(d) == d

\* the weights predict_match multiplies strengths by, in the order rating,
\* xG, squad value, head-to-head
applied_weights(w) == <<w.elo, w.xg, w.squad_value, w.h2h>>

\* w[1] * s[1] + ... + w[4] * s[4] for weights w and strengths s
weighted_sum(w, s) ==
    MulDiv(s[1], w[1], WScale) + MulDiv(s[2], w[2], WScale)
        + MulDiv(s[3], w[3], WScale) + MulDiv(s[4], w[4], WScale)

\* a / b in units of 1/LScale, b > 0
lambda_ratio(a, b) == RoundDiv(LongDivDigits(a, b, 0, 5), 10)

\* seeded fault: the base expectation is one goal
base_goals_is_one(ratio) == ratio

\* base_goals * ratio, base_goals = 1.5
base_goals_times(ratio) == RoundDiv(15 * ratio, 10)

\* predict_match on an engine with weights w and rating store r: the report
\* (without the fields the goal model fills in from the two lambdas), and the
\* objects the call had access to as it leaves them.  Dividing by a zero
\* combined strength raises ZeroDivisionError.
predict_match(w, r, home_team, away_team, home_data, away_data, h2h_matches) ==
    LET elo == calculate_elo_strength(dict_get(home_data, "elo", Pts(1500)),
                                      dict_get(away_data, "elo", Pts(1500)))
        xg == calculate_xg_strength(dict_get(home_data, "xg_for", (3 * XgScale) \div 2),
                                    dict_get(home_data, "xg_against", (3 * XgScale) \div 2),
                                    dict_get(away_data, "xg_for", (3 * XgScale) \div 2),
                                    dict_get(away_data, "xg_against", (3 * XgScale) \div 2))
        value == calculate_value_strength(
                     dict_get(home_data, "squad_value", 100000000 \div ValueUnit),
                     dict_get(away_data, "squad_value", 100000000 \div ValueUnit))
        injury_penalty == calculate_injury_impact(dict_get(home_data, "injuries", 0),
                                                  dict_get(away_data, "injuries", 0),
                                                  default_max_impact)
        h2h == calculate_h2h_strength(IF h2h_matches.given THEN h2h_matches.value ELSE <<>>,
                                      home_team, away_team)
        weighted_home == weighted_sum(applied_weights(w),
                                      <<elo[1], xg[1], value[1], h2h[1]>>)
        weighted_away == weighted_sum(applied_weights(w),
                                      <<elo[2], xg[2], value[2], h2h[2]>>)
        penalized_home == MulFix(weighted_home, PScale - injury_penalty[1])
        penalized_away == MulFix(weighted_away, PScale - injury_penalty[2])
        total == penalized_home + penalized_away
        combined_home == IF total > 0 THEN DivFix(penalized_home, total) ELSE penalized_home
        combined_away == IF total > 0 THEN DivFix(penalized_away, total) ELSE penalized_away
        raised == combined_away = 0 \/ combined_home = 0
        result ==
            IF raised THEN [raised |-> TRUE]
            ELSE [raised |-> FALSE,
                  home_team |-> home_team,
                  away_team |-> away_team,
                  expected_home_goals |->
                      RoundDiv(base_goals_times(lambda_ratio(combined_home, combined_away)) * 13, 10),
                  expected_away_goals |->
                      base_goals_times(lambda_ratio(combined_away, combined_home)),
                  factor_strengths |->
                      [elo |-> elo, xg |-> xg, squad_value |-> value, h2h |-> h2h,
                       injury_penalty |-> injury_penalty],
                  combined_strength |-> <<combined_home, combined_away>>]
    IN  [result |-> result,
         weights |-> w,
         ratings |-> r,
         home_data |-> factors_after_get(home_data),
         away_data |-> factors_after_get(away_data),
         h2h_matches |-> h2h_matches]

(***************************************************************************)
(* Inputs of the engine.                                                   *)
(***************************************************************************)
\* weight vectors <<elo, xg, squad_value, injuries, h2h>> passed to set_weights
WeightChoices ==
    { <<350, 300, 150, 100, 100>>, <<500, 500, 0, 0, 0>>, <<0, 1000, 0, 0, 0>>,
      <<0, 0, 0, 1000, 0>>, <<250, 250, 250, 0, 250>>, <<350, 300, 150, 100, 95>>,
      <<350, 300, 150, 100, 90>>, <<350, 300, 150, 100, 110>>,
      <<350, 300, 150, 100, 50>>, <<350, 300, 150, 100, 150>> }

\* factor dicts: keys elo, xg_for, xg_against, squad_value, injuries, each optional
FactorDicts ==
    { <<>>,
      [elo |-> Pts(1900), xg_for |-> 210, xg_against |-> 90, squad_value |-> 900,
       injuries |-> 2],
      [elo |-> Pts(1700), xg_for |-> 180, xg_against |-> 0, squad_value |-> 400,
       injuries |-> 1],
      [elo |-> Pts(1600), xg_for |-> 120, xg_against |-> 160, squad_value |-> 150,
       injuries |-> 7],
      [elo |-> Pts(1500), xg_for |-> 0, xg_against |-> 0, squad_value |-> 0,
       injuries |-> 0] }

\* head-to-head tables: absent, empty, and with rows
H2hTables ==
    { None, Some(<<>>),
      Some(<<Row("A", "B", 2, 0)>>),
      Some(<<Row("A", "B", 2, 1), Row("B", "A", 1, 1)>>),
      Some(<<Row("C", "B", 0, 1), Row("A", "B", 1, 1)>>) }

EngineInputs ==
    [home_team : {"A"}, away_team : {"B"}, home_data : FactorDicts,
     away_data : FactorDicts, h2h_matches : H2hTables]

\* what a call can reach: the engine's weights and rating store, the caller's objects
Reachable == [weights |-> weights, ratings |-> ratings, inputs |-> inputs]

(***************************************************************************)
(* The engine: construction, then any sequence of set_weights and          *)
(* predict_match calls.                                                    *)
(***************************************************************************)
InitEngine ==
    /\ now = 0
    /\ weights = default_weights
    /\ ratings \in {<<>>, [A |-> Pts(1900), B |-> Pts(base_elo)]}
    /\ inputs \in EngineInputs
    /\ use_cache = FALSE
    /\ cache = None
    /\ call = [op |-> "new"]
    /\ pre = Reachable
    /\ ret = <<>>
    /\ pm = [op |-> "idle"]

SetWeights(v, rounds_out) ==
    /\ LET s == set_weights(weights, v[1], v[2], v[3], v[4], v[5], rounds_out)
       IN  /\ weights' = s.weights
           /\ ret' = [raised |-> s.raised]
    /\ call' = [op |-> "set_weights", elo |-> v[1], xg |-> v[2], squad_value |-> v[3],
                injuries |-> v[4], h2h |-> v[5]]
    /\ pre' = Reachable
    /\ UNCHANGED <<now, ratings, use_cache, cache, pm, inputs>>

PredictMatch ==
    /\ LET p == predict_match(weights, ratings, inputs.home_team, inputs.away_team,
                              inputs.home_data, inputs.away_data, inputs.h2h_matches)
       IN  /\ weights' = p.weights
           /\ ratings' = p.ratings
           /\ inputs' = [inputs EXCEPT !.home_data = p.home_data,
                                       !.away_data = p.away_data,
                                       !.h2h_matches = p.h2h_matches]
           /\ ret' = p.result
    /\ call' = [op |-> "predict_match"]
    /\ pre' = Reachable
    /\ UNCHANGED <<now, use_cache, cache, pm>>

NextEngine ==
    \/ \E v \in WeightChoices, rounds_out \in BOOLEAN : SetWeights(v, rounds_out)
    \/ PredictMatch

SpecEngine == InitEngine /\ [][NextEngine]_vars

(***************************************************************************)
(* Properties of the engine.                                               *)
(***************************************************************************)
IsSetWeights == call.op = "set_weights"
IsEnginePrediction == call.op = "predict_match"

GivenWeights ==
    [elo |-> call.elo, xg |-> call.xg, squad_value |-> call.squad_value,
     injuries |-> call.injuries, h2h |-> call.h2h]

\* |sum of the five given weights - 1.0|
GivenOff ==
    Abs(call.elo + call.xg + call.squad_value + call.injuries + call.h2h - WScale)

\* C11: set_weights raises whenever the five given weights sum to more than
\* 0.01 away from 1.0 (0.95 and 1.05 are rejected) and then leaves the stored
\* weights as they were; when the sum is within 0.01 of 1.0 it stores exactly
\* the given weights, without normalizing them.  A sum at distance exactly
\* 0.01 falls on either side by the rounding of the binary64 sum.
C11_SetWeightsTolerance ==
    IsSetWeights =>
        /\ GivenOff > weight_tolerance => ret.raised
        /\ GivenOff < weight_tolerance => ~ret.raised
        /\ ret.raised => weights = pre.weights
        /\ ~ret.raised => weights = GivenWeights

C11_Witness ==
    /\ IsSetWeights
    /\ ret.raised
    /\ GivenOff = 5 * weight_tolerance
    /\ weights = pre.weights
    /\ weights # default_weights
    /\ weights # GivenWeights

\* w[1] + ... + w[4]
SumApplied(w) == w[1] + w[2] + w[3] + w[4]

\* C12 as stated: in every engine state reached by construction and any
\* sequence of successful set_weights calls, the weights predict_match
\* applies in its weighted sum (rating, xG, squad value, head-to-head) sum to
\* 1.0 within 0.01.
C12_AppliedWeightsSumToOne ==
    IsEnginePrediction =>
        Abs(SumApplied(applied_weights(pre.weights)) - WScale) <= weight_tolerance

\* what does hold: the five stored weights sum to 1.0 within 0.01, so the
\* four applied ones sum to 1.0 less the injuries weight
StoredWeightsSumToOne ==
    /\ Abs(weights.elo + weights.xg + weights.squad_value + weights.injuries
               + weights.h2h - WScale) <= weight_tolerance
    /\ IsEnginePrediction =>
           Abs(SumApplied(applied_weights(pre.weights)) + pre.weights.injuries - WScale)
               <= weight_tolerance

\* the combined strengths the report should hold for the strengths and
\* penalties it lists: weighted sum, times (1 - own penalty), renormalized
DocCombined(w, fs) ==
    LET home == MulFix(weighted_sum(applied_weights(w),
                           <<fs.elo[1], fs.xg[1], fs.squad_value[1], fs.h2h[1]>>),
                       PScale - fs.injury_penalty[1])
        away == MulFix(weighted_sum(applied_weights(w),
                           <<fs.elo[2], fs.xg[2], fs.squad_value[2], fs.h2h[2]>>),
                       PScale - fs.injury_penalty[2])
    IN  [total |-> home + away,
         pair |-> IF home + away > 0
                  THEN <<DivFix(home, home + away), DivFix(away, home + away)>>
                  ELSE <<home, away>>]

\* C14 as stated: for every input predict_match reports a combined_strength
\* that is, per side, the weighted sum of the rating, xG, squad-value and
\* head-to-head strengths times (1 - that side's own injury penalty),
\* renormalized over the pair, so that home + away = 1.
C14_CombinedStrength ==
    IsEnginePrediction =>
        /\ ~ret.raised
        /\ ret.combined_strength = DocCombined(pre.weights, ret.factor_strengths).pair
        /\ Abs(ret.combined_strength[1] + ret.combined_strength[2] - PScale) <= 1

\* what holds: whenever predict_match returns, C14's combined_strength
C14_HoldsWhenReturned ==
    (IsEnginePrediction /\ ~ret.raised) =>
        /\ ret.combined_strength = DocCombined(pre.weights, ret.factor_strengths).pair
        /\ Abs(ret.combined_strength[1] + ret.combined_strength[2] - PScale) <= 1

\* C15 as stated: for every accepted weight vector and all non-negative
\* factor inputs (zero xG, zero squad value, absent factors, absent
\* head-to-head data included) predict_match completes without raising and
\* hands the goal model two finite, strictly positive lambdas.
C15_LambdasAlwaysDefined ==
    IsEnginePrediction =>
        /\ ~ret.raised
        /\ ret.expected_home_goals > 0
        /\ ret.expected_away_goals > 0

\* what holds: a call that returns has positive combined strengths and
\* lambdas, and with the default weights every sampled call returns
C15_HoldsWhenReturned ==
    IsEnginePrediction =>
        /\ ~ret.raised =>
               /\ ret.combined_strength[1] > 0
               /\ ret.combined_strength[2] > 0
               /\ ret.expected_home_goals > 0
               /\ ret.expected_away_goals > 0
        /\ pre.weights = default_weights => ~ret.raised

\* a / b in units of 1/LScale, rounded down
StrengthRatio(a, b) == LongDivDigits(a, b, 0, 4)

\* C30: for every predict_match result with positive combined strengths,
\* expected_home_goals = 1.5 * 1.3 * (home / away) and expected_away_goals =
\* 1.5 * (away / home) of the renormalized combined strengths, so their product
\* is the constant 2.925 whatever the factors, and with equal combined
\* strengths the lambdas are (1.95, 1.5).  The model's lambdas carry a
\* rounding error of up to 3 units of 1/LScale each.
C30_LambdasFromStrengthRatio ==
    (IsEnginePrediction /\ ~ret.raised) =>
        LET home == ret.combined_strength[1]
            away == ret.combined_strength[2]
            home_goals == ret.expected_home_goals
            away_goals == ret.expected_away_goals
        IN  /\ home > 0
            /\ away > 0
            /\ Abs(home_goals - RoundDiv(195 * StrengthRatio(home, away), 100)) <= 3
            /\ Abs(away_goals - RoundDiv(15 * StrengthRatio(away, home), 10)) <= 3
            /\ Abs(home_goals * away_goals - 29250 * LScale) <= 3 * (home_goals + away_goals)
            /\ home = away => (home_goals = 19500 /\ away_goals = 15000)

\* unequal strengths: the stronger home side gets more than 1.95 goals
C30_Witness ==
    /\ IsEnginePrediction
    /\ ~ret.raised
    /\ ret.combined_strength[1] > 2 * ret.combined_strength[2]
    /\ ret.expected_home_goals > 2 * 19500
    /\ ret.expected_away_goals < 15000 \div 2
    /\ Abs(ret.expected_home_goals * ret.expected_away_goals - 29250 * LScale) <= 3 * 60000

\* equal strengths: the lambdas are (1.95, 1.5)
C30_EqualStrengths ==
    /\ IsEnginePrediction
    /\ ~ret.raised
    /\ ret.combined_strength[1] = ret.combined_strength[2]
    /\ ret.expected_home_goals = 19500
    /\ ret.expected_away_goals = 15000

MaxInjuries == 7

EloChoices == {Pts(p) : p \in {0, 1200, 1500, 1501, 1900, 2300}}
XgChoices == {0, 90, 150, 210}
ValueChoices == {0, 100, 150, 900}
InjuryCounts == 0 .. MaxInjuries
MaxImpactChoices == {0, default_max_impact, PScale \div 2, PScale}

H2hRows ==
    {Row("A", "B", 2, 0), Row("B", "A", 1, 1), Row("B", "A", 0, 1),
     Row("C", "B", 0, 1), Row("A", "C", 3, 0)}

H2hFrames == UNION {[1 .. n -> H2hRows] : n \in 0 .. MaxRows}

InitFactors ==
    /\ now = 0
    /\ weights = default_weights
    /\ ratings = <<>>
    /\ inputs = <<>>
    /\ use_cache = FALSE
    /\ cache = None
    /\ call = [op |-> "new"]
    /\ pre = <<>>
    /\ ret = <<>>
    /\ pm = [op |-> "idle"]

CalculateEloStrength(home_elo, away_elo) ==
    /\ call.op = "new"
    /\ call' = [op |-> "calculate_elo_strength", home_elo |-> home_elo, away_elo |-> away_elo]
    /\ ret' = calculate_elo_strength(home_elo, away_elo)
    /\ UNCHANGED <<now, ratings, use_cache, cache, pre, pm, weights, inputs>>

CalculateXgStrength(home_xg_for, home_xg_against, away_xg_for, away_xg_against) ==
    /\ call.op = "new"
    /\ call' = [op |-> "calculate_xg_strength",
                home_xg_for |-> home_xg_for, home_xg_against |-> home_xg_against,
                away_xg_for |-> away_xg_for, away_xg_against |-> away_xg_against]
    /\ ret' = calculate_xg_strength(home_xg_for, home_xg_against,
                                    away_xg_for, away_xg_against)
    /\ UNCHANGED <<now, ratings, use_cache, cache, pre, pm, weights, inputs>>

CalculateValueStrength(home_value, away_value) ==
    /\ call.op = "new"
    /\ call' = [op |-> "calculate_value_strength",
                home_value |-> home_value, away_value |-> away_value]
    /\ ret' = calculate_value_strength(home_value, away_value)
    /\ UNCHANGED <<now, ratings, use_cache, cache, pre, pm, weights, inputs>>

CalculateInjuryImpact(home_injuries, away_injuries, max_impact) ==
    /\ call.op = "new"
    /\ call' = [op |-> "calculate_injury_impact", home_injuries |-> home_injuries,
                away_injuries |-> away_injuries, max_impact |-> max_impact]
    /\ ret' = calculate_injury_impact(home_injuries, away_injuries, max_impact)
    /\ UNCHANGED <<now, ratings, use_cache, cache, pre, pm, weights, inputs>>

CalculateH2hStrength(h2h_data, home_team, away_team) ==
    /\ call.op = "new"
    /\ call' = [op |-> "calculate_h2h_strength", h2h_data |-> h2h_data,
                home_team |-> home_team, away_team |-> away_team]
    /\ ret' = calculate_h2h_strength(h2h_data, home_team, away_team)
    /\ UNCHANGED <<now, ratings, use_cache, cache, pre, pm, weights, inputs>>

NextFactors ==
    \/ \E he \in EloChoices, ae \in EloChoices : CalculateEloStrength(he, ae)
    \/ \E hf \in XgChoices, ha \in XgChoices, af \in XgChoices, aa \in XgChoices :
          CalculateXgStrength(hf, ha, af, aa)
    \/ \E hv \in ValueChoices, av \in ValueChoices : CalculateValueStrength(hv, av)
    \/ \E hi \in InjuryCounts, ai \in InjuryCounts, mi \in MaxImpactChoices :
          CalculateInjuryImpact(hi, ai, mi)
    \/ \E df \in H2hFrames, home \in Teams, away \in Teams :
          home # away /\ CalculateH2hStrength(df, home, away)

SpecFactors == InitFactors /\ [][NextFactors]_vars

(***************************************************************************)
(* Properties of the factor functions.                                     *)
(***************************************************************************)
IsEloStrength == call.op = "calculate_elo_strength"
IsXgStrength == call.op = "calculate_xg_strength"
IsValueStrength == call.op = "calculate_value_strength"
IsInjuryImpact == call.op = "calculate_injury_impact"
IsH2hStrength == call.op = "calculate_h2h_strength"

\* home + away = 1 up to the rounding of the two quotients
SumsToOne(pair) == Abs(pair[1] + pair[2] - PScale) <= 1

\* C13 as stated: for all non-negative inputs, the degenerate ones included
\* (all xG zero, both squad values zero, no head-to-head rows), the rating,
\* xG, squad-value and head-to-head strength functions each return a pair
\* with home_strength + away_strength = 1.
C13_StrengthPairsSumToOne ==
    (IsEloStrength \/ IsXgStrength \/ IsValueStrength \/ IsH2hStrength) =>
        /\ ret[1] >= 0
        /\ ret[2] >= 0
        /\ SumsToOne(ret)

\* the one case where C13 fails: no xG at all
XgAllZero ==
    /\ IsXgStrength
    /\ call.home_xg_for + call.home_xg_against + call.away_xg_for + call.away_xg_against = 0

C13_ExceptXgAllZero == C13_StrengthPairsSumToOne \/ (XgAllZero /\ ret = <<0, 0>>)

\* the rows of df played between exactly teams a and b, in either venue order
Between(df, a, b) ==
    {i \in DOMAIN df : {df[i].HomeTeam, df[i].AwayTeam} = {a, b}}

\* goals of team t in row m (t played in m)
GoalsOf(m, t) == IF m.HomeTeam = t THEN m.HomeGoals ELSE m.AwayGoals

\* the point shares over the rows between the two teams alone: 1 point a win,
\* 0.5 point each a draw (points doubled), 0.5/0.5 without such rows
DocH2hShare(df, home_team, away_team) ==
    LET rows == Between(df, home_team, away_team)
        home_wins == Cardinality({i \in rows :
                         GoalsOf(df[i], home_team) > GoalsOf(df[i], away_team)})
        away_wins == Cardinality({i \in rows :
                         GoalsOf(df[i], home_team) < GoalsOf(df[i], away_team)})
        draws == Cardinality(rows) - home_wins - away_wins
        total == 2 * Cardinality(rows)
    IN  IF rows = {} THEN <<PScale \div 2, PScale \div 2>>
        ELSE <<DivFix(2 * home_wins + draws, total), DivFix(2 * away_wins + draws, total)>>

\* C16 as stated: calculate_h2h_strength counts only the rows played between
\* exactly the given home and away team, in either venue order (a win 1
\* point, a draw 0.5 point each) and returns each side's share of the points;
\* rows involving any other team do not change the result, and without such
\* rows the result is 0.5/0.5.
C16_H2hOnlyBetweenTheTwo ==
    IsH2hStrength => ret = DocH2hShare(call.h2h_data, call.home_team, call.away_team)

\* where C16 does hold: every row is between the two teams
C16_HoldsOnFilteredRows ==
    (IsH2hStrength
        /\ Between(call.h2h_data, call.home_team, call.away_team) = DOMAIN call.h2h_data) =>
        ret = DocH2hShare(call.h2h_data, call.home_team, call.away_team)

\* C17: for every injury count n >= 0 and max_impact >= 0 each side's penalty
\* is min(n * max_impact / 5, max_impact): 0 for n = 0, max_impact for every
\* n >= 5, non-decreasing in n, within [0, max_impact], and a function of
\* that side's own count alone.
C17_InjuryPenalty ==
    IsInjuryImpact =>
        LET mi == call.max_impact
            own(n) == Min((n * mi) \div 5, mi)
        IN  /\ ret = <<own(call.home_injuries), own(call.away_injuries)>>
            /\ \A s \in 1 .. 2 : ret[s] >= 0 /\ ret[s] <= mi
            /\ call.home_injuries = 0 => ret[1] = 0
            /\ call.away_injuries = 0 => ret[2] = 0
            /\ call.home_injuries >= 5 => ret[1] = mi
            /\ call.away_injuries >= 5 => ret[2] = mi
            /\ \A n \in InjuryCounts :
                   /\ calculate_injury_impact(call.home_injuries, n, mi)[1] = ret[1]
                   /\ calculate_injury_impact(n, call.away_injuries, mi)[2] = ret[2]
                   /\ n <= call.home_injuries =>
                          calculate_injury_impact(n, call.away_injuries, mi)[1] <= ret[1]
                   /\ n <= call.away_injuries =>
                          calculate_injury_impact(call.home_injuries, n, mi)[2] <= ret[2]

C17_Witness ==
    /\ IsInjuryImpact
    /\ call.home_injuries = MaxInjuries
    /\ call.away_injuries = 2
    /\ call.max_impact = default_max_impact
    /\ ret = <<default_max_impact, 2 * (default_max_impact \div 5)>>

(***************************************************************************)
(* The score list: get_score_probabilities called twice with the same      *)
(* arguments on the same build.                                            *)
(***************************************************************************)
ScoreLambdaQs == {2, 5, 7, 10}
TopNChoices == {1, 5, 10}

\* a top_n larger than the frame
BigTopN == score_rows + 9

ScoreCalls ==
    [home_lambda : ScoreLambdaQs, away_lambda : ScoreLambdaQs, top_n : TopNChoices]
    \cup [home_lambda : {5}, away_lambda : {5, 7}, top_n : {BigTopN}]

InitScores ==
    /\ now = 0
    /\ ratings = <<>>
    /\ use_cache = FALSE
    /\ cache = None
    /\ call = [op |-> "idle"]
    /\ pre = <<>>
    /\ ret = <<>>
    /\ weights = <<>>
    /\ inputs = <<>>
    /\ pm \in {[op |-> "get_score_probabilities", home_lambda |-> c.home_lambda,
                away_lambda |-> c.away_lambda, top_n |-> c.top_n, tie_order |-> t,
                returned |-> <<>>] : c \in ScoreCalls, t \in TieOrders}

\* one more call with the arguments of pm; `returned` lists the frames returned so far
GetScoreProbabilities ==
    /\ pm.op = "get_score_probabilities"
    /\ Len(pm.returned) < 2
    /\ pm' = [pm EXCEPT !.returned =
                 Append(@, get_score_probabilities(pm.home_lambda, pm.away_lambda,
                                                   pm.top_n, pm.tie_order))]
    /\ UNCHANGED <<now, ratings, use_cache, cache, call, pre, ret, weights, inputs>>

NextScores == GetScoreProbabilities

SpecScores == InitScores /\ [][NextScores]_vars

(***************************************************************************)
(* Properties of the score list and of BTTS.                               *)
(***************************************************************************)
IsScoreList == pm.op = "get_score_probabilities"
IsBtts == pm.op = "calculate_btts"

C19_WholeFrame ==
    /\ IsScoreList
    /\ Len(pm.returned) = 2
    /\ pm.top_n > score_rows
    /\ Len(pm.returned[1]) = score_rows

\* C20: calculate_btts returns btts_yes = (1 - P(home scores 0)) *
\* (1 - P(away scores 0)) and btts_no = 1 - btts_yes, so the two add up to 1
\* and both lie in [0, 1].
C20_BttsComplement ==
    IsBtts =>
        /\ pm.btts_yes_prob = MulFix(PScale - poisson_probability(pm.home_lambda, 0),
                                     PScale - poisson_probability(pm.away_lambda, 0))
        /\ pm.btts_no_prob = PScale - pm.btts_yes_prob
        /\ pm.btts_yes_prob + pm.btts_no_prob = PScale
        /\ pm.btts_yes_prob >= 0 /\ pm.btts_yes_prob <= PScale
        /\ pm.btts_no_prob >= 0 /\ pm.btts_no_prob <= PScale

C20_Witness ==
    /\ IsBtts
    /\ pm.home_lambda > pm.away_lambda
    /\ pm.home_zero_prob < pm.away_zero_prob
    /\ pm.btts_yes_prob > 0
    /\ pm.btts_yes_prob < pm.btts_no_prob

(***************************************************************************)
(* DataCache (src/src/data_sources/cache.py): one pickle file per key in   *)
(* the cache directory.  A key is a sequence of characters; time is in     *)
(* hours.  The DataCache object is [files, default_expiry_hours], files    *)
(* mapping the path of each existing file to its {'timestamp', 'data'}.    *)
(***************************************************************************)
MaxClock == 3

\* str.lower on the characters of the sample keys
lower(ch) == IF ch = "A" THEN "a" ELSE IF ch = "B" THEN "b" ELSE ch

\* seeded fault: the key is the file name as it stands
get_cache_path_verbatim(key) == key

\* _get_cache_path: key.replace('/', '_').replace(' ', '_').lower()
get_cache_path(key) ==
    [i \in 1 .. Len(key) |-> lower(IF key[i] \in {"/", " "} THEN "_" ELSE key[i])]

\* cache_path.unlink()
unlink(files, cache_path) == [p \in (DOMAIN files) \ {cache_path} |-> files[p]]

\* seeded fault: an expired entry is reported as missing but its file is kept
cache_get_keeps_expired(c, key, expiry_hours, t) ==
    LET cache_path == get_cache_path(key)
        expiry == IF expiry_hours.given THEN expiry_hours.value ELSE c.default_expiry_hours
    IN  IF cache_path \notin DOMAIN c.files THEN [data |-> None, cache |-> c]
        ELSE IF t > c.files[cache_path].timestamp + expiry THEN [data |-> None, cache |-> c]
        ELSE [data |-> Some(c.files[cache_path].data), cache |-> c]

\* seeded fault: the entry counts as expired as soon as its age reaches the expiry
cache_get_expires_at_limit(c, key, expiry_hours, t) ==
    LET cache_path == get_cache_path(key)
        expiry == IF expiry_hours.given THEN expiry_hours.value ELSE c.default_expiry_hours
    IN  IF cache_path \notin DOMAIN c.files THEN [data |-> None, cache |-> c]
        ELSE IF t >= c.files[cache_path].timestamp + expiry
             THEN [data |-> None,
                   cache |-> [c EXCEPT !.files = unlink(c.files, cache_path)]]
        ELSE [data |-> Some(c.files[cache_path].data), cache |-> c]

\* DataCache.get at time t: the returned data (None when missing or expired)
\* and the cache afterwards (an expired file is removed)
cache_get(c, key, expiry_hours, t) ==
    LET cache_path == get_cache_path(key)
        expiry == IF expiry_hours.given THEN expiry_hours.value ELSE c.default_expiry_hours
    IN  IF cache_path \notin DOMAIN c.files THEN [data |-> None, cache |-> c]
        ELSE IF t > c.files[cache_path].timestamp + expiry
             THEN [data |-> None,
                   cache |-> [c EXCEPT !.files = unlink(c.files, cache_path)]]
        ELSE [data |-> Some(c.files[cache_path].data), cache |-> c]

\* DataCache.set at time t: the file is (over)written with the data and the time
cache_set(c, key, data, t) ==
    LET cache_path == get_cache_path(key)
    IN  [ok |-> TRUE,
         cache |-> [c EXCEPT !.files =
                       [p \in (DOMAIN c.files) \cup {cache_path} |->
                           IF p = cache_path THEN [timestamp |-> t, data |-> data]
                           ELSE c.files[p]]]]

\* DataCache.delete: True when a file was there
cache_delete(c, key) ==
    LET cache_path == get_cache_path(key)
    IN  IF cache_path \in DOMAIN c.files
        THEN [ok |-> TRUE, cache |-> [c EXCEPT !.files = unlink(c.files, cache_path)]]
        ELSE [ok |-> FALSE, cache |-> c]

\* keys the callers use, payloads, expiry arguments and constructor defaults
CacheKeys == {<<"a", " ", "B">>, <<"a", "_", "b">>, <<"c">>}
CacheData == {"d1", "d2"}
ExpiryArgs == {None, Some(1)}
DefaultExpiryChoices == {2}

\* what the callers did with a key so far: the last set if no delete followed
\* it, and whether a get since then saw it older than the expiry then in force
Untouched == [set |-> None, outlived |-> FALSE, touched |-> FALSE]

InitCache ==
    /\ now = 0
    /\ cache \in {[files |-> <<>>, default_expiry_hours |-> e] : e \in DefaultExpiryChoices}
    /\ inputs = [k \in CacheKeys |-> Untouched]
    /\ pre = inputs
    /\ call = [op |-> "new"]
    /\ ret = <<>>
    /\ ratings = <<>>
    /\ use_cache = TRUE
    /\ pm = [op |-> "idle"]
    /\ weights = <<>>

CacheSet(key, data) ==
    /\ LET s == cache_set(cache, key, data, now)
       IN  /\ cache' = s.cache
           /\ ret' = s.ok
    /\ call' = [op |-> "set", key |-> key, data |-> data]
    /\ pre' = inputs
    /\ inputs' = [inputs EXCEPT ![key] = [set |-> Some([data |-> data, at |-> now]),
                                          outlived |-> FALSE, touched |-> TRUE]]
    /\ UNCHANGED <<now, ratings, use_cache, pm, weights>>

CacheGet(key, expiry_hours) ==
    /\ LET g == cache_get(cache, key, expiry_hours, now)
       IN  /\ cache' = g.cache
           /\ ret' = g.data
    /\ call' = [op |-> "get", key |-> key, expiry_hours |-> expiry_hours, at |-> now,
                expiry |-> IF expiry_hours.given THEN expiry_hours.value
                           ELSE cache.default_expiry_hours]
    /\ pre' = inputs
    /\ inputs' = [inputs EXCEPT ![key] =
                     [@ EXCEPT !.touched = TRUE,
                               !.outlived = @ \/ (inputs[key].set.given
                                                  /\ now - inputs[key].set.value.at
                                                       > call'.expiry)]]
    /\ UNCHANGED <<now, ratings, use_cache, pm, weights>>

CacheDelete(key) ==
    /\ LET d == cache_delete(cache, key)
       IN  /\ cache' = d.cache
           /\ ret' = d.ok
    /\ call' = [op |-> "delete", key |-> key]
    /\ pre' = inputs
    /\ inputs' = [inputs EXCEPT ![key] = [set |-> None, outlived |-> FALSE, touched |-> TRUE]]
    /\ UNCHANGED <<now, ratings, use_cache, pm, weights>>

\* an hour passes
Tick ==
    /\ now < MaxClock
    /\ now' = now + 1
    /\ UNCHANGED <<ratings, use_cache, cache, call, pre, ret, pm, weights, inputs>>

NextCache ==
    \/ \E key \in CacheKeys, data \in CacheData : CacheSet(key, data)
    \/ \E key \in CacheKeys, expiry_hours \in ExpiryArgs : CacheGet(key, expiry_hours)
    \/ \E key \in CacheKeys : CacheDelete(key)
    \/ Tick

SpecCache == InitCache /\ [][NextCache]_vars

IsCacheGet == call.op = "get"

\* what get(k) returns according to what the callers did with k
DocGet(history, expiry, t) ==
    IF ~history.set.given \/ history.outlived THEN None
    ELSE IF t - history.set.value.at > expiry THEN None
    ELSE Some(history.set.value.data)

\* the entry set under the key of the call is older than the expiry in force
SeenExpired ==
    /\ pre[call.key].set.given
    /\ call.at - pre[call.key].set.value.at > call.expiry

\* C27: after set(k, d), get(k) returns d as long as the entry's age does not
\* exceed the expiry in force (the call's expiry_hours if given, else the
\* default); once the age exceeds it, get(k) returns None and removes the
\* entry, so every later get(k) returns None until the next set(k); get on a
\* key that was never set, or was deleted, returns None.
C27_SetGetExpiry ==
    IsCacheGet =>
        /\ ret = DocGet(pre[call.key], call.expiry, call.at)
        /\ SeenExpired => get_cache_path(call.key) \notin DOMAIN cache.files

\* no two different keys the callers have used so far share a file
NoAliasing ==
    \A k1 \in CacheKeys, k2 \in CacheKeys :
        (inputs[k1].touched /\ inputs[k2].touched /\ k1 # k2)
            => get_cache_path(k1) # get_cache_path(k2)

\* what holds: the claimed behaviour, as long as the keys in use have
\* different file names
C27_HoldsWithoutAliasing ==
    (IsCacheGet /\ NoAliasing) =>
        /\ ret = DocGet(pre[call.key], call.expiry, call.at)
        /\ SeenExpired => get_cache_path(call.key) \notin DOMAIN cache.files

\* an entry read back at the age of its expiry
C27_ReadAtLimit ==
    /\ IsCacheGet
    /\ NoAliasing
    /\ pre[call.key].set.given
    /\ call.at - pre[call.key].set.value.at = call.expiry
    /\ ret = Some(pre[call.key].set.value.data)

\* an entry that a get with a short expiry dropped is gone for a later get
\* under the longer default
C27_GoneAfterExpiry ==
    /\ IsCacheGet
    /\ NoAliasing
    /\ pre[call.key].set.given
    /\ pre[call.key].outlived
    /\ ~call.expiry_hours.given
    /\ call.at - pre[call.key].set.value.at <= call.expiry
    /\ ret = None

\* a key that was never set returns the data set under another key
C27_AliasedKeyRead ==
    /\ IsCacheGet
    /\ ~pre[call.key].set.given
    /\ ret.given

(***************************************************************************)
(* BettingOddsProvider (src/src/data_sources/betting_odds.py).  Odds are   *)
(* in units of 1/OddsScale, probabilities and lambdas in units of          *)
(* 1/PScale.  The 'timestamp' field of an odds dict is left out.           *)
(***************************************************************************)
OddsScale == 10^2

CACHE_EXPIRY_HOURS == 6

\* _odds_to_probability
odds_to_probability(odds, odds_format) ==
    IF odds_format = "decimal"
    THEN IF odds <= 0 THEN 0 ELSE RoundDiv(LongDivDigits(OddsScale, odds, 0, 9), 10)
    ELSE IF odds_format = "american"
    THEN IF odds >= 0
         THEN DivFix(100 * OddsScale, odds + 100 * OddsScale)
         ELSE DivFix(Abs(odds), Abs(odds) + 100 * OddsScale)
    ELSE IF odds_format = "fractional"
    THEN DivFix(OddsScale, odds + OddsScale)
    ELSE 0

\* seeded fault: the probabilities are returned as they are, whatever the method
remove_margin_as_is(probs, method) == probs

\* _remove_margin: 'proportional' (and 'shin', which falls back to it) divide
\* by the total unless it is not positive; any other method returns probs
remove_margin(probs, method) ==
    IF method \in {"proportional", "shin"}
    THEN LET total == probs[1] + probs[2] + probs[3]
         IN  IF total <= 0 THEN probs
             ELSE <<DivFix(probs[1], total), DivFix(probs[2], total), DivFix(probs[3], total)>>
    ELSE probs

\* seeded fault: a draw probability of exactly 0.25 already compresses
draw_is_high_at_threshold(draw_prob) == draw_prob >= PScale \div 4

\* if draw_prob > 0.25
draw_is_high(draw_prob) == draw_prob > PScale \div 4

\* max(low, min(high, x))
clamp(low, high, x) == IF x > high THEN high ELSE IF x < low THEN low ELSE x

\* _probability_to_lambda: <<home_lambda, away_lambda>>
probability_to_lambda(home_prob, draw_prob, away_prob) ==
    LET avg_home == (17 * PScale) \div 10
        avg_away == (14 * PScale) \div 10
        differential == home_prob - away_prob
        home_raw == avg_home + RoundDiv(12 * differential, 10)
        away_raw == avg_away - RoundDiv(12 * differential, 10)
        mean_lambda == RoundDiv(home_raw + away_raw, 2)
        home_lambda == IF draw_is_high(draw_prob)
                       THEN mean_lambda + RoundDiv(7 * (home_raw - mean_lambda), 10)
                       ELSE home_raw
        away_lambda == IF draw_is_high(draw_prob)
                       THEN mean_lambda + RoundDiv(7 * (away_raw - mean_lambda), 10)
                       ELSE away_raw
    IN  <<clamp(PScale \div 2, (7 * PScale) \div 2, home_lambda),
          clamp(PScale \div 2, 3 * PScale, away_lambda)>>

\* team names the callers pass
OddsTeams == {"Bayer 04 Leverkusen", "Bayer Leverkusen", "RB Leipzig", "VfB Stuttgart",
              "VfL Bochum 1848", "VfL Bochum"}

\* _normalize_team_name on the sample names: the first replacement whose old
\* name occurs in the team name
normalize_team_name(team_name) ==
    IF team_name = "Bayer 04 Leverkusen" THEN "Bayer Leverkusen"
    ELSE IF team_name = "VfL Bochum 1848" THEN "VfL Bochum"
    ELSE team_name

top_teams == {"Bayern Muenchen", "Borussia Dortmund", "Bayer Leverkusen", "RB Leipzig"}
mid_teams == {"VfB Stuttgart", "Eintracht Frankfurt", "VfL Wolfsburg", "SC Freiburg"}

\* the odds _generate_mock_odds makes up from the two names
mock_odds(home_team, away_team) ==
    IF home_team \in top_teams /\ away_team \notin top_teams \cup mid_teams
    THEN [home |-> 150, draw |-> 450, away |-> 700]
    ELSE IF away_team \in top_teams /\ home_team \notin top_teams \cup mid_teams
    THEN [home |-> 600, draw |-> 450, away |-> 160]
    ELSE IF home_team \in top_teams /\ away_team \in top_teams
    THEN [home |-> 220, draw |-> 350, away |-> 300]
    ELSE [home |-> 250, draw |-> 340, away |-> 280]

\* cache_key = f"odds_{home}_{away}"
odds_cache_key(home_team, away_team) == <<"odds_", home_team, "_", away_team>>

\* _generate_mock_odds at time t: the odds dict, and the cache after storing it
generate_mock_odds(uc, c, t, home_team, away_team) ==
    LET odds == mock_odds(home_team, away_team)
        home_prob == odds_to_probability(odds.home, "decimal")
        draw_prob == odds_to_probability(odds.draw, "decimal")
        away_prob == odds_to_probability(odds.away, "decimal")
        fair_probs == remove_margin(<<home_prob, draw_prob, away_prob>>, "proportional")
        lambdas == probability_to_lambda(fair_probs[1], fair_probs[2], fair_probs[3])
        result == [home_team |-> home_team,
                   away_team |-> away_team,
                   odds_decimal |-> odds,
                   implied_probabilities |->
                       [home |-> home_prob, draw |-> draw_prob, away |-> away_prob],
                   fair_probabilities |->
                       [home |-> fair_probs[1], draw |-> fair_probs[2], away |-> fair_probs[3]],
                   expected_goals |-> [home |-> lambdas[1], away |-> lambdas[2]],
                   margin |-> home_prob + draw_prob + away_prob - PScale,
                   source |-> "mock"]
    IN  [result |-> result,
         cache |-> IF uc THEN cache_set(c, odds_cache_key(home_team, away_team), result, t).cache
                   ELSE c]

\* get_match_odds at time t on a provider with or without an API key: the
\* cached dict when there is an unexpired one, else made-up odds in both modes
get_match_odds(has_api_key, uc, c, t, home_team, away_team) ==
    LET home_normalized == normalize_team_name(home_team)
        away_normalized == normalize_team_name(away_team)
        cached == cache_get(c, odds_cache_key(home_normalized, away_normalized),
                            Some(CACHE_EXPIRY_HOURS), t)
        mock_mode == ~has_api_key
    IN  IF uc /\ cached.data.given
        THEN [result |-> cached.data.value, cache |-> cached.cache]
        ELSE generate_mock_odds(uc, IF uc THEN cached.cache ELSE c, t,
                                home_normalized, away_normalized)

\* get_odds_strength: a fresh BettingOddsProvider() (no API key, cache on)
get_odds_strength(c, t, home_team, away_team) ==
    LET odds == get_match_odds(FALSE, TRUE, c, t, home_team, away_team)
        home_prob == odds.result.fair_probabilities.home
        away_prob == odds.result.fair_probabilities.away
        total == home_prob + away_prob
    IN  [result |-> IF total <= 0 THEN <<PScale \div 2, PScale \div 2>>
                    ELSE <<DivFix(home_prob, total), DivFix(away_prob, total)>>,
         cache |-> odds.cache]

\* get_odds_lambdas: a fresh BettingOddsProvider() (no API key, cache on)
get_odds_lambdas(c, t, home_team, away_team) ==
    LET odds == get_match_odds(FALSE, TRUE, c, t, home_team, away_team)
    IN  [result |-> <<odds.result.expected_goals.home, odds.result.expected_goals.away>>,
         cache |-> odds.cache]

\* decimal odds, odds formats, margin methods and probabilities of the calls
OddsChoices == {0 - 100, 0, 150, 160, 250, 340, 450, 700}
OddsFormats == {"decimal", "american", "fractional", "malay"}
MarginMethods == {"proportional", "shin", "as_is"}
ProbChoices == {0, PScale \div 10, PScale \div 4, PScale \div 4 + 1, (3 * PScale) \div 10,
                PScale \div 2, (9 * PScale) \div 10, PScale}

\* the cache directory: empty, or holding the odds of an earlier call at time 0
OddsCaches ==
    LET empty == [files |-> <<>>, default_expiry_hours |-> CACHE_EXPIRY_HOURS]
    IN  {empty,
         generate_mock_odds(TRUE, empty, 0, "Bayer Leverkusen", "VfL Bochum").cache}

InitOdds ==
    /\ now \in {0, CACHE_EXPIRY_HOURS, CACHE_EXPIRY_HOURS + 1}
    /\ cache \in OddsCaches
    /\ call = [op |-> "new"]
    /\ pre = cache
    /\ ret = <<>>
    /\ ratings = <<>>
    /\ use_cache = TRUE
    /\ pm = [op |-> "idle"]
    /\ weights = <<>>
    /\ inputs = <<>>

OddsToProbability(odds, odds_format) ==
    /\ call.op = "new"
    /\ ret' = odds_to_probability(odds, odds_format)
    /\ call' = [op |-> "odds_to_probability", odds |-> odds, odds_format |-> odds_format]
    /\ UNCHANGED <<now, ratings, use_cache, cache, pre, pm, weights, inputs>>

RemoveMargin(home_odds, draw_odds, away_odds, method) ==
    /\ call.op = "new"
    /\ LET probs == <<odds_to_probability(home_odds, "decimal"),
                      odds_to_probability(draw_odds, "decimal"),
                      odds_to_probability(away_odds, "decimal")>>
       IN  /\ ret' = remove_margin(probs, method)
           /\ call' = [op |-> "remove_margin", probs |-> probs, method |-> method]
    /\ UNCHANGED <<now, ratings, use_cache, cache, pre, pm, weights, inputs>>

ProbabilityToLambda(home_prob, draw_prob, away_prob) ==
    /\ call.op = "new"
    /\ ret' = probability_to_lambda(home_prob, draw_prob, away_prob)
    /\ call' = [op |-> "probability_to_lambda", home_prob |-> home_prob,
                draw_prob |-> draw_prob, away_prob |-> away_prob]
    /\ UNCHANGED <<now, ratings, use_cache, cache, pre, pm, weights, inputs>>

GetMatchOdds(has_api_key, uc, home_team, away_team) ==
    /\ call.op = "new"
    /\ LET odds == get_match_odds(has_api_key, uc, cache, now, home_team, away_team)
       IN  /\ ret' = odds.result
           /\ cache' = odds.cache
    /\ call' = [op |-> "get_match_odds", has_api_key |-> has_api_key, use_cache |-> uc,
                home_team |-> home_team, away_team |-> away_team]
    /\ UNCHANGED <<now, ratings, use_cache, pre, pm, weights, inputs>>

GetOddsStrength(home_team, away_team) ==
    /\ call.op = "new"
    /\ LET strength == get_odds_strength(cache, now, home_team, away_team)
       IN  /\ ret' = strength.result
           /\ cache' = strength.cache
    /\ call' = [op |-> "get_odds_strength", home_team |-> home_team, away_team |-> away_team]
    /\ UNCHANGED <<now, ratings, use_cache, pre, pm, weights, inputs>>

GetOddsLambdas(home_team, away_team) ==
    /\ call.op = "new"
    /\ LET lambdas == get_odds_lambdas(cache, now, home_team, away_team)
       IN  /\ ret' = lambdas.result
           /\ cache' = lambdas.cache
    /\ call' = [op |-> "get_odds_lambdas", home_team |-> home_team, away_team |-> away_team]
    /\ UNCHANGED <<now, ratings, use_cache, pre, pm, weights, inputs>>

NextOdds ==
    \/ \E odds \in OddsChoices, odds_format \in OddsFormats :
          (odds_format = "fractional" => odds >= 0) /\ OddsToProbability(odds, odds_format)
    \/ \E home_odds \in OddsChoices, draw_odds \in OddsChoices, away_odds \in OddsChoices,
          method \in MarginMethods :
          RemoveMargin(home_odds, draw_odds, away_odds, method)
    \/ \E home_prob \in ProbChoices, draw_prob \in ProbChoices, away_prob \in ProbChoices :
          ProbabilityToLambda(home_prob, draw_prob, away_prob)
    \/ \E has_api_key \in BOOLEAN, uc \in BOOLEAN, home \in OddsTeams, away \in OddsTeams :
          GetMatchOdds(has_api_key, uc, home, away)
    \/ \E home \in OddsTeams, away \in OddsTeams : GetOddsStrength(home, away)
    \/ \E home \in OddsTeams, away \in OddsTeams : GetOddsLambdas(home, away)

SpecOdds == InitOdds /\ [][NextOdds]_vars

IsRemoveMargin == call.op = "remove_margin"
IsProbabilityToLambda == call.op = "probability_to_lambda"
IsGetOddsStrength == call.op = "get_odds_strength"
IsGetOddsLambdas == call.op = "get_odds_lambdas"

\* the returned triple sums to 1 and keeps the ratios of the given one
FairTriple(probs, fair) ==
    /\ Abs(fair[1] + fair[2] + fair[3] - PScale) <= 2
    /\ \A i \in 1 .. 3 : fair[i] >= 0
    /\ \A i \in 1 .. 3, j \in 1 .. 3 :
           Abs(MulFix(fair[i], probs[j]) - MulFix(fair[j], probs[i])) <= 2

C23_LambdaFromProbabilities ==
    IsProbabilityToLambda =>
        LET shift == RoundDiv(12 * (call.home_prob - call.away_prob), 10)
            home == 170000000 + shift
            away == 140000000 - shift
            mean == (home + away) \div 2
            compressed == call.draw_prob > 25000000
            home_lambda == IF compressed THEN mean + RoundDiv(7 * (home - mean), 10) ELSE home
            away_lambda == IF compressed THEN mean + RoundDiv(7 * (away - mean), 10) ELSE away
        IN  /\ ret[1] >= 50000000 /\ ret[1] <= 350000000
            /\ ret[2] >= 50000000 /\ ret[2] <= 300000000
            /\ ret[1] = IF home_lambda < 50000000 THEN 50000000
                        ELSE IF home_lambda > 350000000 THEN 350000000
                        ELSE home_lambda
            /\ ret[2] = IF away_lambda < 50000000 THEN 50000000
                        ELSE IF away_lambda > 300000000 THEN 300000000
                        ELSE away_lambda

\* a draw probability of exactly 0.25 leaves the lambdas uncompressed
C23_Witness ==
    /\ IsProbabilityToLambda
    /\ call.draw_prob = PScale \div 4
    /\ call.home_prob = PScale \div 2
    /\ call.away_prob = PScale \div 4
    /\ ret = <<200000000, 110000000>>

\* just above 0.25 the distances from the mean shrink to 0.7 of their size
C23_Compressed ==
    /\ IsProbabilityToLambda
    /\ call.draw_prob = PScale \div 4 + 1
    /\ call.home_prob = PScale \div 2
    /\ call.away_prob = PScale \div 4
    /\ ret = <<186500000, 123500000>>

\* the away lambda is clamped at 0.5
C23_Clamped ==
    /\ IsProbabilityToLambda
    /\ call.home_prob = PScale
    /\ call.away_prob = 0
    /\ ~(call.draw_prob > PScale \div 4)
    /\ ret = <<290000000, 50000000>>

\* C24: whenever no odds data is available (no API key configured, provider
\* error, or no market found), get_odds_lambdas returns (1.7, 1.4) and
\* get_odds_strength returns (0.5, 0.5), and neither raises.  Both functions
\* build their provider without an API key.
C24_FallbackWithoutOdds ==
    /\ IsGetOddsLambdas => ret = <<(17 * PScale) \div 10, (14 * PScale) \div 10>>
    /\ IsGetOddsStrength => ret = <<PScale \div 2, PScale \div 2>>

\* what holds: both return what the made-up (or cached) odds of
\* get_match_odds give, and a top team at home is rated above the averages
C24_MockOddsReturned ==
    /\ IsGetOddsLambdas =>
           LET odds == get_match_odds(FALSE, TRUE, pre, now, call.home_team, call.away_team)
           IN  /\ odds.result.source = "mock"
               /\ ret = <<odds.result.expected_goals.home, odds.result.expected_goals.away>>
               /\ (call.home_team = "RB Leipzig" /\ call.away_team = "VfL Bochum")
                      => (ret[1] > 2 * PScale /\ ret[2] < PScale)
    /\ IsGetOddsStrength =>
           LET odds == get_match_odds(FALSE, TRUE, pre, now, call.home_team, call.away_team)
           IN  /\ odds.result.source = "mock"
               /\ Abs(ret[1] + ret[2] - PScale) <= 1
               /\ (call.home_team = "RB Leipzig" /\ call.away_team = "VfL Bochum")
                      => ret[1] > 4 * ret[2]

(***************************************************************************)
(* ELORatingSystem instances on the shared DataCache: ratings and          *)
(* use_cache are pairs (one entry per instance), cache is the DataCache    *)
(* object with a flag telling whether its get and set raise.               *)
(***************************************************************************)
MaxCalls == 2

Instances == {1, 2}

\* cache_key: str = "elo_ratings_bundesliga"
ratings_cache_key == <<"elo_ratings_bundesliga">>

\* self.cache.get(cache_key, expiry_hours=self.cache_expiry_hours) at time t
ratings_cache_get(dc, t, cache_expiry_hours) ==
    IF dc.raises THEN [data |-> Unavailable, cache |-> dc]
    ELSE cache_get(dc, ratings_cache_key, Some(cache_expiry_hours), t)

\* load_ratings_from_cache of an instance at time t
load_ratings_from_cache_at(r, uc, cache_expiry_hours, dc, t) ==
    LET got == ratings_cache_get(dc, t, cache_expiry_hours)
        loaded == load_ratings_from_cache(r, uc, got.data)
    IN  [ok |-> loaded.ok,
         ratings |-> loaded.ratings,
         cache |-> IF uc THEN got.cache ELSE dc]

\* save_ratings_to_cache of an instance at time t
save_ratings_to_cache_at(r, uc, dc, t) ==
    LET saved == save_ratings_to_cache(r, uc, IF dc.raises THEN Unavailable ELSE None)
    IN  [ok |-> saved.ok,
         cache |-> IF saved.ok THEN cache_set(dc, ratings_cache_key, r, t).cache ELSE dc]

\* if self.use_cache: self.save_ratings_to_cache(cache_key), after the loop
\* has left the instance with p.ratings and the load has left the cache dc
saved_after_loop(p, uc, dc, t) ==
    [ratings |-> p.ratings,
     results |-> p.results,
     cache |-> IF uc THEN save_ratings_to_cache_at(p.ratings, uc, dc, t).cache ELSE dc]

\* process_matches_from_dataframe of an instance at time t
process_matches_from_dataframe_at(r, uc, cache_expiry_hours, dc, t, matches_df, initial_ratings) ==
    saved_after_loop(
        process_matches_from_dataframe(r, uc, ratings_cache_get(dc, t, cache_expiry_hours).data,
                                       matches_df, initial_ratings),
        uc,
        IF uc /\ ~Truthy(initial_ratings)
        THEN ratings_cache_get(dc, t, cache_expiry_hours).cache
        ELSE dc,
        t)

\* the matches DataFrames and constructor arguments of the instances
InstanceFrames == {<<Row("A", "B", 2, 1)>>, <<Row("B", "A", 1, 2), Row("A", "C", 1, 0)>>}
InstanceExpiryHours == <<2, 1>>
InstanceUseCache == {<<TRUE, TRUE>>, <<TRUE, FALSE>>}
InstanceInitialRatings == {None, Some([A |-> Pts(1900), B |-> Pts(1820)])}

InitRatingsCache ==
    /\ now = 0
    /\ ratings \in {<<r, <<>> >> : r \in {<<>>, [A |-> Pts(1900), B |-> Pts(base_elo)]}}
    /\ use_cache \in InstanceUseCache
    /\ cache \in {[files |-> <<>>, default_expiry_hours |-> InstanceExpiryHours[1],
                   raises |-> b] : b \in BOOLEAN}
    /\ inputs = [calls |-> 0, saved_by |-> 0]
    /\ call = [op |-> "new"]
    /\ pre = [ratings |-> ratings, cache |-> cache, saved_by |-> 0]
    /\ ret = <<>>
    /\ pm = [op |-> "idle"]
    /\ weights = <<>>

\* who wrote the entry the cache holds now (0: nobody, or it was dropped)
SavedBy(i, ok, dc) ==
    IF ok THEN i
    ELSE IF get_cache_path(ratings_cache_key) \in DOMAIN dc.files THEN inputs.saved_by
    ELSE 0

InstanceLoadRatings(i) ==
    /\ inputs.calls < MaxCalls
    /\ LET l == load_ratings_from_cache_at(ratings[i], use_cache[i], InstanceExpiryHours[i],
                                           cache, now)
       IN  /\ ratings' = [ratings EXCEPT ![i] = l.ratings]
           /\ cache' = l.cache
           /\ ret' = l.ok
           /\ inputs' = [calls |-> inputs.calls + 1, saved_by |-> SavedBy(i, FALSE, l.cache)]
    /\ call' = [op |-> "load_ratings_from_cache", instance |-> i, at |-> now]
    /\ pre' = [ratings |-> ratings, cache |-> cache, saved_by |-> inputs.saved_by]
    /\ UNCHANGED <<now, use_cache, pm, weights>>

InstanceSaveRatings(i) ==
    /\ inputs.calls < MaxCalls
    /\ LET s == save_ratings_to_cache_at(ratings[i], use_cache[i], cache, now)
       IN  /\ cache' = s.cache
           /\ ret' = s.ok
           /\ inputs' = [calls |-> inputs.calls + 1, saved_by |-> SavedBy(i, s.ok, s.cache)]
    /\ call' = [op |-> "save_ratings_to_cache", instance |-> i, at |-> now]
    /\ pre' = [ratings |-> ratings, cache |-> cache, saved_by |-> inputs.saved_by]
    /\ UNCHANGED <<now, ratings, use_cache, pm, weights>>

InstanceProcessMatches(i, matches_df, initial_ratings) ==
    /\ inputs.calls < MaxCalls
    /\ \E p \in {process_matches_from_dataframe_at(ratings[i], use_cache[i],
                                                   InstanceExpiryHours[i], cache, now,
                                                   matches_df, initial_ratings)} :
           /\ ratings' = [ratings EXCEPT ![i] = p.ratings]
           /\ cache' = p.cache
           /\ ret' = p.results
           /\ inputs' = [calls |-> inputs.calls + 1,
                         saved_by |-> SavedBy(i, use_cache[i] /\ ~cache.raises, p.cache)]
    /\ call' = [op |-> "process_matches_from_dataframe", instance |-> i, at |-> now,
                matches_df |-> matches_df, initial_ratings |-> initial_ratings]
    /\ pre' = [ratings |-> ratings, cache |-> cache, saved_by |-> inputs.saved_by]
    /\ UNCHANGED <<now, use_cache, pm, weights>>

NextRatingsCache ==
    \/ \E i \in Instances : InstanceLoadRatings(i)
    \/ \E i \in Instances : InstanceSaveRatings(i)
    \/ \E i \in Instances, df \in InstanceFrames, initial \in InstanceInitialRatings :
          InstanceProcessMatches(i, df, initial)
    \/ Tick

SpecRatingsCache == InitRatingsCache /\ [][NextRatingsCache]_vars

IsInstanceLoad == call.op = "load_ratings_from_cache"
IsInstanceSave == call.op = "save_ratings_to_cache"
IsInstanceBatch == call.op = "process_matches_from_dataframe" /\ "instance" \in DOMAIN call

\* the ratings a batch starts from when the cache gives nothing
MissStart == IF Truthy(call.initial_ratings) THEN call.initial_ratings.value
             ELSE pre.ratings[call.instance]

\* C25: for the rating system a cache whose get or set raises behaves like an
\* always-miss cache: load_ratings_from_cache and save_ratings_to_cache return
\* False and the exception does not escape, the in-memory ratings are not
\* altered by the failed load, and process_matches_from_dataframe returns the
\* same match deltas and the same final ratings as in the miss case.
C25_UnavailableCacheIsAMiss ==
    (call.op # "new" /\ pre.cache.raises /\ use_cache[call.instance]) =>
        /\ cache = pre.cache
        /\ \A j \in Instances \ {call.instance} : ratings[j] = pre.ratings[j]
        /\ IsInstanceLoad => (ret = FALSE /\ ratings = pre.ratings)
        /\ IsInstanceSave => (ret = FALSE /\ ratings = pre.ratings)
        /\ IsInstanceBatch =>
               LET miss == ProcessRows(MissStart, call.matches_df, <<>>)
               IN  /\ ret = miss.results
                   /\ ratings[call.instance] = miss.ratings

\* a batch on an instance holding ratings, with the cache raising: it starts
\* from the ratings in memory
C25_Witness ==
    /\ IsInstanceBatch
    /\ pre.cache.raises
    /\ use_cache[call.instance]
    /\ ~call.initial_ratings.given
    /\ pre.ratings[call.instance] # <<>>
    /\ ret[1].home_team = "A"
    /\ ret[1].home_elo_old = Pts(1900)
    /\ ratings[call.instance] # pre.ratings[call.instance]
    /\ cache = pre.cache

\* a failed load on an instance holding ratings
C25_FailedLoad ==
    /\ IsInstanceLoad
    /\ pre.cache.raises
    /\ use_cache[call.instance]
    /\ pre.ratings[call.instance] # <<>>
    /\ ret = FALSE
    /\ ratings = pre.ratings

\* the cache entry of the ratings before the call, if present and unexpired
\* for the calling instance
RatingsPath == get_cache_path(ratings_cache_key)

CacheHit ==
    /\ RatingsPath \in DOMAIN pre.cache.files
    /\ call.at - pre.cache.files[RatingsPath].timestamp
           <= InstanceExpiryHours[call.instance]

\* C28: with caching enabled and no initial ratings,
\* process_matches_from_dataframe starts from the cached ratings when the key
\* is present and unexpired (replacing the in-memory ratings) and from the
\* in-memory ratings otherwise, and afterwards writes the final ratings under
\* the same key; the ratings saved by one instance are the starting ratings of
\* a later call on another instance.
C28_BatchStartsFromCache ==
    (IsInstanceBatch /\ use_cache[call.instance] /\ ~pre.cache.raises
                     /\ ~call.initial_ratings.given) =>
        LET start == IF CacheHit THEN pre.cache.files[RatingsPath].data
                     ELSE pre.ratings[call.instance]
            want == ProcessRows(start, call.matches_df, <<>>)
        IN  /\ ret = want.results
            /\ ratings[call.instance] = want.ratings
            /\ RatingsPath \in DOMAIN cache.files
            /\ cache.files[RatingsPath] = [timestamp |-> call.at, data |-> want.ratings]
            /\ inputs.saved_by = call.instance

\* the second instance, fresh, starts from what the first one saved
C28_Witness ==
    /\ IsInstanceBatch
    /\ call.instance = 2
    /\ use_cache[2]
    /\ ~call.initial_ratings.given
    /\ pre.saved_by = 1
    /\ pre.ratings[2] = <<>>
    /\ CacheHit
    /\ call.at > pre.cache.files[RatingsPath].timestamp
    /\ pre.cache.files[RatingsPath].data = pre.ratings[1]
    /\ pre.ratings[1] # <<>>
    /\ ret[1].home_elo_old = pre.ratings[1][ret[1].home_team]
    /\ ret[1].home_elo_old # Pts(base_elo)

\* an expired entry is ignored: the batch starts from the ratings in memory
C28_ExpiredEntryIgnored ==
    /\ IsInstanceBatch
    /\ use_cache[call.instance]
    /\ ~pre.cache.raises
    /\ ~call.initial_ratings.given
    /\ RatingsPath \in DOMAIN pre.cache.files
    /\ ~CacheHit
    /\ pre.cache.files[RatingsPath].data # pre.ratings[call.instance]
    /\ ret[1].home_elo_old = Held(pre.ratings[call.instance], ret[1].home_team)
    /\ cache.files[RatingsPath].timestamp = call.at

(***************************************************************************)
(* Two process_match calls in flight on one ELORatingSystem: each          *)
(* update_rating reads the team's rating, reads the opponent's rating and  *)
(* writes the new rating, and the two calls take these steps in any order  *)
(* unless the caller serializes them.  call.threads holds each call's      *)
(* position and the ratings it has read, call.owner the call the caller    *)
(* lets run (0: none), inputs the caller's choices, pre the ratings before *)
(* both calls.                                                             *)
(***************************************************************************)
Threads == {1, 2}

\* seeded fault: the rating change is computed without the home advantage
new_rating_away_from_home(team_rating, opponent_rating, goals_for, goals_against, is_home) ==
    team_rating
    + rating_change(get_goal_difference_multiplier(Abs(goals_for - goals_against)),
                    get_actual_score(goals_for, goals_against),
                    expected_score(team_rating, opponent_rating))

\* new_rating = team_rating + rating_change, from the two ratings read before
new_rating(team_rating, opponent_rating, goals_for, goals_against, is_home) ==
    team_rating
    + rating_change(get_goal_difference_multiplier(Abs(goals_for - goals_against)),
                    get_actual_score(goals_for, goals_against),
                    expected_score(team_rating_adjusted(team_rating, is_home),
                                   opponent_rating))

\* the update_rating call a process_match is in: its arguments
IsHomeUpdate(th) == th.pc \in {"home_team", "home_opponent", "home_write"}
UpdateTeam(th) == IF IsHomeUpdate(th) THEN th.match.HomeTeam ELSE th.match.AwayTeam
UpdateOpponent(th) == IF IsHomeUpdate(th) THEN th.match.AwayTeam ELSE th.match.HomeTeam
UpdateGoalsFor(th) == IF IsHomeUpdate(th) THEN th.match.HomeGoals ELSE th.match.AwayGoals
UpdateGoalsAgainst(th) == IF IsHomeUpdate(th) THEN th.match.AwayGoals ELSE th.match.HomeGoals

\* the matches of the two calls: every pair has team A in common
RaceMatches == {Row("A", "B", 2, 1), Row("A", "C", 0, 3), Row("C", "A", 1, 1)}
RaceRatings == {<<>>, [A |-> Pts(1900), B |-> Pts(1820)]}

StartOfCall(match) ==
    [match |-> match, pc |-> "home_team", team_rating |-> 0, opponent_rating |-> 0]

InitRace ==
    /\ now = 0
    /\ ratings \in RaceRatings
    /\ inputs \in [serialized : BOOLEAN, matches : RaceMatches \X RaceMatches]
    /\ call = [op |-> "process_match",
               owner |-> 0,
               threads |-> <<StartOfCall(inputs.matches[1]), StartOfCall(inputs.matches[2])>>]
    /\ pre = ratings
    /\ use_cache = FALSE
    /\ cache = None
    /\ ret = <<>>
    /\ pm = [op |-> "idle"]
    /\ weights = <<>>

\* the caller lets call t take a step
MayStep(t) == inputs.serialized => call.owner \in {0, t}

\* team_rating = self.get_rating(team)
ReadTeamRating(t) ==
    /\ call.threads[t].pc \in {"home_team", "away_team"}
    /\ MayStep(t)
    /\ call' = [call EXCEPT
                  !.owner = IF inputs.serialized THEN t ELSE 0,
                  !.threads[t].team_rating = get_rating(ratings, UpdateTeam(call.threads[t])),
                  !.threads[t].pc = IF IsHomeUpdate(call.threads[t]) THEN "home_opponent"
                                    ELSE "away_opponent"]
    /\ UNCHANGED <<now, ratings, use_cache, cache, pre, ret, pm, weights, inputs>>

\* opponent_rating = self.get_rating(opponent)
ReadOpponentRating(t) ==
    /\ call.threads[t].pc \in {"home_opponent", "away_opponent"}
    /\ MayStep(t)
    /\ call' = [call EXCEPT
                  !.threads[t].opponent_rating =
                      get_rating(ratings, UpdateOpponent(call.threads[t])),
                  !.threads[t].pc = IF IsHomeUpdate(call.threads[t]) THEN "home_write"
                                    ELSE "away_write"]
    /\ UNCHANGED <<now, ratings, use_cache, cache, pre, ret, pm, weights, inputs>>

\* self.ratings[team] = new_rating; after the away side's write the call returns
WriteRating(t) ==
    /\ call.threads[t].pc \in {"home_write", "away_write"}
    /\ MayStep(t)
    /\ ratings' = StoreRating(ratings, UpdateTeam(call.threads[t]),
                              new_rating(call.threads[t].team_rating,
                                         call.threads[t].opponent_rating,
                                         UpdateGoalsFor(call.threads[t]),
                                         UpdateGoalsAgainst(call.threads[t]),
                                         IsHomeUpdate(call.threads[t])))
    /\ call' = [call EXCEPT
                  !.owner = IF IsHomeUpdate(call.threads[t]) THEN @ ELSE 0,
                  !.threads[t].pc = IF IsHomeUpdate(call.threads[t]) THEN "away_team"
                                    ELSE "done"]
    /\ UNCHANGED <<now, use_cache, cache, pre, ret, pm, weights, inputs>>

NextRace ==
    \/ \E t \in Threads : ReadTeamRating(t)
    \/ \E t \in Threads : ReadOpponentRating(t)
    \/ \E t \in Threads : WriteRating(t)

SpecRace == InitRace /\ [][NextRace]_vars

BothReturned == \A t \in Threads : call.threads[t].pc = "done"

\* the ratings after the two calls one after the other, first then second
SerialOrder(first, second) ==
    process_match(process_match(pre, first.HomeTeam, first.AwayTeam,
                                first.HomeGoals, first.AwayGoals).ratings,
                  second.HomeTeam, second.AwayTeam,
                  second.HomeGoals, second.AwayGoals).ratings

IsSerialOutcome ==
    \/ ratings = SerialOrder(inputs.matches[1], inputs.matches[2])
    \/ ratings = SerialOrder(inputs.matches[2], inputs.matches[1])

\* C26: the rating store has no internal locking, update_rating being a
\* read-compute-write on the shared ratings map: when the caller serializes
\* two process_match calls that involve a common team, the final ratings
\* always equal the outcome of one of the two serial orders (interleaved at
\* the granularity of the rating reads and writes they need not: C26_Witness).
C26_SerializedIsSerial ==
    (BothReturned /\ inputs.serialized) => IsSerialOutcome

\* interleaved, the two calls end in ratings neither serial order gives
C26_Witness ==
    /\ BothReturned
    /\ ~inputs.serialized
    /\ inputs.matches[1] # inputs.matches[2]
    /\ ~IsSerialOutcome

\* a lost update: team A ends with the rating the second call alone gives it,
\* the first call's change to it being overwritten
C26_LostUpdate ==
    /\ BothReturned
    /\ ~inputs.serialized
    /\ inputs.matches[1].HomeTeam = "A"
    /\ inputs.matches[2].HomeTeam = "A"
    /\ inputs.matches[1] # inputs.matches[2]
    /\ ratings["A"] = process_match(pre, "A", inputs.matches[2].AwayTeam,
                                    inputs.matches[2].HomeGoals,
                                    inputs.matches[2].AwayGoals).ratings["A"]
    /\ ~IsSerialOutcome

====
